---- MODULE Spec2Model ----
(***************************************************************************)
(* A model of project-summary (summary.py): the reify descriptor, the      *)
(* GitHub request layer, project discovery and filtering, the Project      *)
(* facts used by the HTML report, and the report drivers.                  *)
(*                                                                         *)
(* The program has five independent stateful parts; each has its own       *)
(* specification (SpecReify, SpecRequest, SpecList, SpecProjects,          *)
(* SpecMain) over its own group of variables, the other groups staying at  *)
(* their idle values.  The functions that only compute a result from their *)
(* argument are each called once, on every argument of a bounded set, in   *)
(* the specifications over the call group.                                 *)
(***************************************************************************)
EXTENDS Integers, Sequences, FiniteSets, TLC

VARIABLES
    \* ---- reify (summary.py:46-53), one attribute on each of several objects
    dict,          \* obj.__dict__[name]: <<v>> when cached, <<>> when absent
    computations,  \* how many times fn(obj) has run, per object
    source,        \* what fn(obj) would compute now (the VCS/network state)
    got,           \* the value the last read of the attribute returned
    run,           \* history: the reads made in a row since the cache was empty
    invalidations, \* history: how many times del obj.attr removed the value, per object
    overridden,    \* history: whether obj.attr was ever assigned to, per object
    \* ---- github_request (summary.py:165-179) on one response
    response,      \* the response requests.get returned
    now,           \* time.time() at the moment of the request
    tz,            \* local time: its offset from UTC and where it is from
    outcome,       \* what github_request did with it
    \* ---- github_request_list (summary.py:186-194) against a paginated endpoint
    server,        \* the endpoint: the response it gives for each page
    batch_size,    \* the batch_size argument
    listPc,        \* "start", "loop", "returned" or "raised"
    page,          \* the loop variable of itertools.count(2)
    res,           \* the last response
    result,        \* the JSON value collected so far
    requests,      \* the queries issued so far, in order
    raised,        \* the exception that left github_request_list, if any
    \* ---- get_projects (summary.py:538-550) over the working trees on disk
    config,        \* the Configuration: projects, ignore, skip_branches, fetch, pull
    repo,          \* the git state of each working tree: branch and last tag
    repos,         \* what get_repos(config) returned
    idx,           \* the position of the loop in repos
    projPc,        \* where the generator is
    p,             \* the Project of this iteration: working tree and cached facts
    yielded,       \* the projects yielded so far, in order
    log,           \* history: one entry per finished iteration
    \* ---- main and the report drivers (summary.py:944-1031)
    args,          \* the parsed command line: html, output_file, verbose
    projects,      \* what get_projects yields: each project's surroundings
    mainPc,        \* where main is
    table,         \* which table of the template is being rendered
    row,           \* how many projects have been rendered in it, or printed
    html,          \* the document rendered so far, in memory: the rows of its tables
    file,          \* the content of the output file on disk
    stdout,        \* what was printed
    stderr,        \* traceback and message printed on the way out
    exit,          \* whether the process has ended, and its exit code
    failure,       \* history: the exception that ended report generation, and where
    \* ---- one call of a function or method that only computes a result
    call,          \* the function called and its argument
    ret            \* <<>> before the call returns, then <<what it returned or raised>>

reifyVars == <<dict, computations, source, got, run, invalidations, overridden>>
requestVars == <<response, now, tz, outcome>>
listVars == <<server, batch_size, listPc, page, res, result, requests, raised>>
projVars == <<config, repo, repos, idx, projPc, p, yielded, log>>
mainVars == <<args, projects, mainPc, table, row, html, file, stdout, stderr, exit, failure>>
callVars == <<call, ret>>
vars == <<reifyVars, requestVars, listVars, projVars, mainVars, callVars>>

\* Python's None where a string may stand: no string has this element
None == <<"None">>

(***************************************************************************)
(* reify: a non-data descriptor.  Python looks an attribute up in the      *)
(* instance __dict__ before it consults a non-data descriptor, so __get__  *)
(* runs only while the name is absent from obj.__dict__.                   *)
(***************************************************************************)
Objs == {"sth", "other"}
Values == {4, 5}
MaxReads == 3
MaxComputations == 3

\* an optional value: <<>> when there is none, <<v>> when it is v
Absent == <<>>
Some(v) == <<v>>

NoRun == [reads |-> 0, comps |-> 0, first |-> Absent]

\* fn(obj): the underlying computation, reading the outside world
fn(o) == source[o]

\* a __get__ that forgets to store the value
reify__get__no_store(o, value) == dict

\* a __get__ that caches on the class: one value for every instance
reify__get__store_on_class(o, value) == [x \in Objs |-> Some(value)]

\* what reify.__get__ leaves in obj.__dict__: the computed value
reify__get__store(o, value) == [dict EXCEPT ![o] = Some(value)]

\* reify.__get__(obj): compute, store in obj.__dict__, return
reify__get__(o) ==
    LET value == fn(o) IN
    /\ computations' = [computations EXCEPT ![o] = @ + 1]
    /\ dict' = reify__get__store(o, value)
    /\ got' = [got EXCEPT ![o] = Some(value)]
    /\ run' = [run EXCEPT ![o] =
                 [reads |-> @.reads + 1, comps |-> @.comps + 1,
                  first |-> IF @.reads = 0 THEN Some(value) ELSE @.first]]

\* obj.attr: the instance __dict__ wins over the non-data descriptor.  A run
\* of reads starts at an empty cache: reads of an assigned value are in none
GetAttr(o) ==
    /\ run[o].reads < MaxReads
    /\ IF dict[o] # Absent
       THEN /\ got' = [got EXCEPT ![o] = dict[o]]
            /\ run' = IF run[o].reads = 0 THEN run
                      ELSE [run EXCEPT ![o] = [@ EXCEPT !.reads = @ + 1]]
            /\ UNCHANGED <<dict, computations>>
       ELSE reify__get__(o)
    /\ UNCHANGED <<source, invalidations, overridden, requestVars, listVars, projVars, mainVars, callVars>>

\* del obj.attr: removes the cached value (AttributeError when there is none)
DelAttr(o) ==
    /\ computations[o] < MaxComputations
    /\ invalidations[o] < MaxComputations
    /\ dict[o] # Absent
    /\ dict' = [dict EXCEPT ![o] = Absent]
    /\ run' = [run EXCEPT ![o] = NoRun]
    /\ invalidations' = [invalidations EXCEPT ![o] = @ + 1]
    /\ UNCHANGED <<computations, source, got, overridden, requestVars, listVars, projVars, mainVars, callVars>>

\* obj.attr = v: reify has no __set__, so the value goes into obj.__dict__
\* and fn does not run
SetAttr(o, v) ==
    /\ dict' = [dict EXCEPT ![o] = Some(v)]
    /\ run' = [run EXCEPT ![o] = NoRun]
    /\ overridden' = [overridden EXCEPT ![o] = TRUE]
    /\ UNCHANGED <<computations, source, got, invalidations, requestVars, listVars, projVars, mainVars, callVars>>

\* the outside world changes what fn would compute
SourceChanges(o) ==
    /\ \E v \in Values \ {source[o]} : source' = [source EXCEPT ![o] = v]
    /\ UNCHANGED <<dict, computations, got, run, invalidations, overridden, requestVars, listVars, projVars, mainVars, callVars>>

InitReify ==
    /\ dict = [o \in Objs |-> Absent]
    /\ computations = [o \in Objs |-> 0]
    /\ source \in [Objs -> Values]
    /\ got = [o \in Objs |-> Absent]
    /\ run = [o \in Objs |-> NoRun]
    /\ invalidations = [o \in Objs |-> 0]
    /\ overridden = [o \in Objs |-> FALSE]

IdleReify ==
    /\ dict = [o \in Objs |-> Absent]
    /\ computations = [o \in Objs |-> 0]
    /\ source = [o \in Objs |-> 4]
    /\ got = [o \in Objs |-> Absent]
    /\ run = [o \in Objs |-> NoRun]
    /\ invalidations = [o \in Objs |-> 0]
    /\ overridden = [o \in Objs |-> FALSE]

NextReify ==
    \/ \E o \in Objs : GetAttr(o)
    \/ \E o \in Objs : DelAttr(o)
    \/ \E o \in Objs, v \in Values : SetAttr(o, v)
    \/ \E o \in Objs : SourceChanges(o)

(***************************************************************************)
(* Strings are sequences of one-character strings, so that prefixes,       *)
(* suffixes and digits are computed as the code computes them.             *)
(***************************************************************************)
\* A character up to U+00FF is written as itself, a character beyond it by
\* the name of its code point ("U+0663" is one character). The tables are
\* those of Unicode 14; an interpreter with an older database knows no
\* U+1E14x, U+1E2Fx (Unicode 12), U+1195x, U+1FBFx (13) and U+16ACx (14):
\* there such a code point is a character outside every table below.

\* the characters of category Nd, UnicodeDecimals[v + 1] those of value v
UnicodeDecimals ==
    << {"0", "U+0660", "U+06F0", "U+07C0", "U+0966", "U+09E6", "U+0A66",
        "U+0AE6", "U+0B66", "U+0BE6", "U+0C66", "U+0CE6", "U+0D66",
        "U+0DE6", "U+0E50", "U+0ED0", "U+0F20", "U+1040", "U+1090",
        "U+17E0", "U+1810", "U+1946", "U+19D0", "U+1A80", "U+1A90",
        "U+1B50", "U+1BB0", "U+1C40", "U+1C50", "U+A620", "U+A8D0",
        "U+A900", "U+A9D0", "U+A9F0", "U+AA50", "U+ABF0", "U+FF10",
        "U+104A0", "U+10D30", "U+11066", "U+110F0", "U+11136", "U+111D0",
        "U+112F0", "U+11450", "U+114D0", "U+11650", "U+116C0", "U+11730",
        "U+118E0", "U+11950", "U+11C50", "U+11D50", "U+11DA0", "U+16A60",
        "U+16AC0", "U+16B50", "U+1D7CE", "U+1D7D8", "U+1D7E2", "U+1D7EC",
        "U+1D7F6", "U+1E140", "U+1E2F0", "U+1E950", "U+1FBF0"},
       {"1", "U+0661", "U+06F1", "U+07C1", "U+0967", "U+09E7", "U+0A67",
        "U+0AE7", "U+0B67", "U+0BE7", "U+0C67", "U+0CE7", "U+0D67",
        "U+0DE7", "U+0E51", "U+0ED1", "U+0F21", "U+1041", "U+1091",
        "U+17E1", "U+1811", "U+1947", "U+19D1", "U+1A81", "U+1A91",
        "U+1B51", "U+1BB1", "U+1C41", "U+1C51", "U+A621", "U+A8D1",
        "U+A901", "U+A9D1", "U+A9F1", "U+AA51", "U+ABF1", "U+FF11",
        "U+104A1", "U+10D31", "U+11067", "U+110F1", "U+11137", "U+111D1",
        "U+112F1", "U+11451", "U+114D1", "U+11651", "U+116C1", "U+11731",
        "U+118E1", "U+11951", "U+11C51", "U+11D51", "U+11DA1", "U+16A61",
        "U+16AC1", "U+16B51", "U+1D7CF", "U+1D7D9", "U+1D7E3", "U+1D7ED",
        "U+1D7F7", "U+1E141", "U+1E2F1", "U+1E951", "U+1FBF1"},
       {"2", "U+0662", "U+06F2", "U+07C2", "U+0968", "U+09E8", "U+0A68",
        "U+0AE8", "U+0B68", "U+0BE8", "U+0C68", "U+0CE8", "U+0D68",
        "U+0DE8", "U+0E52", "U+0ED2", "U+0F22", "U+1042", "U+1092",
        "U+17E2", "U+1812", "U+1948", "U+19D2", "U+1A82", "U+1A92",
        "U+1B52", "U+1BB2", "U+1C42", "U+1C52", "U+A622", "U+A8D2",
        "U+A902", "U+A9D2", "U+A9F2", "U+AA52", "U+ABF2", "U+FF12",
        "U+104A2", "U+10D32", "U+11068", "U+110F2", "U+11138", "U+111D2",
        "U+112F2", "U+11452", "U+114D2", "U+11652", "U+116C2", "U+11732",
        "U+118E2", "U+11952", "U+11C52", "U+11D52", "U+11DA2", "U+16A62",
        "U+16AC2", "U+16B52", "U+1D7D0", "U+1D7DA", "U+1D7E4", "U+1D7EE",
        "U+1D7F8", "U+1E142", "U+1E2F2", "U+1E952", "U+1FBF2"},
       {"3", "U+0663", "U+06F3", "U+07C3", "U+0969", "U+09E9", "U+0A69",
        "U+0AE9", "U+0B69", "U+0BE9", "U+0C69", "U+0CE9", "U+0D69",
        "U+0DE9", "U+0E53", "U+0ED3", "U+0F23", "U+1043", "U+1093",
        "U+17E3", "U+1813", "U+1949", "U+19D3", "U+1A83", "U+1A93",
        "U+1B53", "U+1BB3", "U+1C43", "U+1C53", "U+A623", "U+A8D3",
        "U+A903", "U+A9D3", "U+A9F3", "U+AA53", "U+ABF3", "U+FF13",
        "U+104A3", "U+10D33", "U+11069", "U+110F3", "U+11139", "U+111D3",
        "U+112F3", "U+11453", "U+114D3", "U+11653", "U+116C3", "U+11733",
        "U+118E3", "U+11953", "U+11C53", "U+11D53", "U+11DA3", "U+16A63",
        "U+16AC3", "U+16B53", "U+1D7D1", "U+1D7DB", "U+1D7E5", "U+1D7EF",
        "U+1D7F9", "U+1E143", "U+1E2F3", "U+1E953", "U+1FBF3"},
       {"4", "U+0664", "U+06F4", "U+07C4", "U+096A", "U+09EA", "U+0A6A",
        "U+0AEA", "U+0B6A", "U+0BEA", "U+0C6A", "U+0CEA", "U+0D6A",
        "U+0DEA", "U+0E54", "U+0ED4", "U+0F24", "U+1044", "U+1094",
        "U+17E4", "U+1814", "U+194A", "U+19D4", "U+1A84", "U+1A94",
        "U+1B54", "U+1BB4", "U+1C44", "U+1C54", "U+A624", "U+A8D4",
        "U+A904", "U+A9D4", "U+A9F4", "U+AA54", "U+ABF4", "U+FF14",
        "U+104A4", "U+10D34", "U+1106A", "U+110F4", "U+1113A", "U+111D4",
        "U+112F4", "U+11454", "U+114D4", "U+11654", "U+116C4", "U+11734",
        "U+118E4", "U+11954", "U+11C54", "U+11D54", "U+11DA4", "U+16A64",
        "U+16AC4", "U+16B54", "U+1D7D2", "U+1D7DC", "U+1D7E6", "U+1D7F0",
        "U+1D7FA", "U+1E144", "U+1E2F4", "U+1E954", "U+1FBF4"},
       {"5", "U+0665", "U+06F5", "U+07C5", "U+096B", "U+09EB", "U+0A6B",
        "U+0AEB", "U+0B6B", "U+0BEB", "U+0C6B", "U+0CEB", "U+0D6B",
        "U+0DEB", "U+0E55", "U+0ED5", "U+0F25", "U+1045", "U+1095",
        "U+17E5", "U+1815", "U+194B", "U+19D5", "U+1A85", "U+1A95",
        "U+1B55", "U+1BB5", "U+1C45", "U+1C55", "U+A625", "U+A8D5",
        "U+A905", "U+A9D5", "U+A9F5", "U+AA55", "U+ABF5", "U+FF15",
        "U+104A5", "U+10D35", "U+1106B", "U+110F5", "U+1113B", "U+111D5",
        "U+112F5", "U+11455", "U+114D5", "U+11655", "U+116C5", "U+11735",
        "U+118E5", "U+11955", "U+11C55", "U+11D55", "U+11DA5", "U+16A65",
        "U+16AC5", "U+16B55", "U+1D7D3", "U+1D7DD", "U+1D7E7", "U+1D7F1",
        "U+1D7FB", "U+1E145", "U+1E2F5", "U+1E955", "U+1FBF5"},
       {"6", "U+0666", "U+06F6", "U+07C6", "U+096C", "U+09EC", "U+0A6C",
        "U+0AEC", "U+0B6C", "U+0BEC", "U+0C6C", "U+0CEC", "U+0D6C",
        "U+0DEC", "U+0E56", "U+0ED6", "U+0F26", "U+1046", "U+1096",
        "U+17E6", "U+1816", "U+194C", "U+19D6", "U+1A86", "U+1A96",
        "U+1B56", "U+1BB6", "U+1C46", "U+1C56", "U+A626", "U+A8D6",
        "U+A906", "U+A9D6", "U+A9F6", "U+AA56", "U+ABF6", "U+FF16",
        "U+104A6", "U+10D36", "U+1106C", "U+110F6", "U+1113C", "U+111D6",
        "U+112F6", "U+11456", "U+114D6", "U+11656", "U+116C6", "U+11736",
        "U+118E6", "U+11956", "U+11C56", "U+11D56", "U+11DA6", "U+16A66",
        "U+16AC6", "U+16B56", "U+1D7D4", "U+1D7DE", "U+1D7E8", "U+1D7F2",
        "U+1D7FC", "U+1E146", "U+1E2F6", "U+1E956", "U+1FBF6"},
       {"7", "U+0667", "U+06F7", "U+07C7", "U+096D", "U+09ED", "U+0A6D",
        "U+0AED", "U+0B6D", "U+0BED", "U+0C6D", "U+0CED", "U+0D6D",
        "U+0DED", "U+0E57", "U+0ED7", "U+0F27", "U+1047", "U+1097",
        "U+17E7", "U+1817", "U+194D", "U+19D7", "U+1A87", "U+1A97",
        "U+1B57", "U+1BB7", "U+1C47", "U+1C57", "U+A627", "U+A8D7",
        "U+A907", "U+A9D7", "U+A9F7", "U+AA57", "U+ABF7", "U+FF17",
        "U+104A7", "U+10D37", "U+1106D", "U+110F7", "U+1113D", "U+111D7",
        "U+112F7", "U+11457", "U+114D7", "U+11657", "U+116C7", "U+11737",
        "U+118E7", "U+11957", "U+11C57", "U+11D57", "U+11DA7", "U+16A67",
        "U+16AC7", "U+16B57", "U+1D7D5", "U+1D7DF", "U+1D7E9", "U+1D7F3",
        "U+1D7FD", "U+1E147", "U+1E2F7", "U+1E957", "U+1FBF7"},
       {"8", "U+0668", "U+06F8", "U+07C8", "U+096E", "U+09EE", "U+0A6E",
        "U+0AEE", "U+0B6E", "U+0BEE", "U+0C6E", "U+0CEE", "U+0D6E",
        "U+0DEE", "U+0E58", "U+0ED8", "U+0F28", "U+1048", "U+1098",
        "U+17E8", "U+1818", "U+194E", "U+19D8", "U+1A88", "U+1A98",
        "U+1B58", "U+1BB8", "U+1C48", "U+1C58", "U+A628", "U+A8D8",
        "U+A908", "U+A9D8", "U+A9F8", "U+AA58", "U+ABF8", "U+FF18",
        "U+104A8", "U+10D38", "U+1106E", "U+110F8", "U+1113E", "U+111D8",
        "U+112F8", "U+11458", "U+114D8", "U+11658", "U+116C8", "U+11738",
        "U+118E8", "U+11958", "U+11C58", "U+11D58", "U+11DA8", "U+16A68",
        "U+16AC8", "U+16B58", "U+1D7D6", "U+1D7E0", "U+1D7EA", "U+1D7F4",
        "U+1D7FE", "U+1E148", "U+1E2F8", "U+1E958", "U+1FBF8"},
       {"9", "U+0669", "U+06F9", "U+07C9", "U+096F", "U+09EF", "U+0A6F",
        "U+0AEF", "U+0B6F", "U+0BEF", "U+0C6F", "U+0CEF", "U+0D6F",
        "U+0DEF", "U+0E59", "U+0ED9", "U+0F29", "U+1049", "U+1099",
        "U+17E9", "U+1819", "U+194F", "U+19D9", "U+1A89", "U+1A99",
        "U+1B59", "U+1BB9", "U+1C49", "U+1C59", "U+A629", "U+A8D9",
        "U+A909", "U+A9D9", "U+A9F9", "U+AA59", "U+ABF9", "U+FF19",
        "U+104A9", "U+10D39", "U+1106F", "U+110F9", "U+1113F", "U+111D9",
        "U+112F9", "U+11459", "U+114D9", "U+11659", "U+116C9", "U+11739",
        "U+118E9", "U+11959", "U+11C59", "U+11D59", "U+11DA9", "U+16A69",
        "U+16AC9", "U+16B59", "U+1D7D7", "U+1D7E1", "U+1D7EB", "U+1D7F5",
        "U+1D7FF", "U+1E149", "U+1E2F9", "U+1E959", "U+1FBF9"} >>

\* the characters int() reads as decimal digits
Digits == UNION {UnicodeDecimals[v] : v \in 1..10}

DigitVal(c) == (CHOOSE v \in 1..10 : c \in UnicodeDecimals[v]) - 1

\* the characters that str.isdigit() accepts and int() refuses: digits that
\* are no decimal digits (superscripts, circled and parenthesized digits)
OtherDigits ==
    {"²", "³", "¹", "U+1369", "U+136A", "U+136B", "U+136C", "U+136D",
     "U+136E", "U+136F", "U+1370", "U+1371", "U+19DA", "U+2070", "U+2074",
     "U+2075", "U+2076", "U+2077", "U+2078", "U+2079", "U+2080", "U+2081",
     "U+2082", "U+2083", "U+2084", "U+2085", "U+2086", "U+2087", "U+2088",
     "U+2089", "U+2460", "U+2461", "U+2462", "U+2463", "U+2464", "U+2465",
     "U+2466", "U+2467", "U+2468", "U+2474", "U+2475", "U+2476", "U+2477",
     "U+2478", "U+2479", "U+247A", "U+247B", "U+247C", "U+2488", "U+2489",
     "U+248A", "U+248B", "U+248C", "U+248D", "U+248E", "U+248F", "U+2490",
     "U+24EA", "U+24F5", "U+24F6", "U+24F7", "U+24F8", "U+24F9", "U+24FA",
     "U+24FB", "U+24FC", "U+24FD", "U+24FF", "U+2776", "U+2777", "U+2778",
     "U+2779", "U+277A", "U+277B", "U+277C", "U+277D", "U+277E", "U+2780",
     "U+2781", "U+2782", "U+2783", "U+2784", "U+2785", "U+2786", "U+2787",
     "U+2788", "U+278A", "U+278B", "U+278C", "U+278D", "U+278E", "U+278F",
     "U+2790", "U+2791", "U+2792", "U+10A40", "U+10A41", "U+10A42",
     "U+10A43", "U+10E60", "U+10E61", "U+10E62", "U+10E63", "U+10E64",
     "U+10E65", "U+10E66", "U+10E67", "U+10E68", "U+11052", "U+11053",
     "U+11054", "U+11055", "U+11056", "U+11057", "U+11058", "U+11059",
     "U+1105A", "U+1F100", "U+1F101", "U+1F102", "U+1F103", "U+1F104",
     "U+1F105", "U+1F106", "U+1F107", "U+1F108", "U+1F109", "U+1F10A"}

\* the characters str.isspace() accepts, which str.strip() removes
Whitespace ==
    {"\t", "\n", "", "\f", "\r", "",
     "", "", "", " ", "", " ",
     "U+1680", "U+2000", "U+2001", "U+2002", "U+2003", "U+2004",
     "U+2005", "U+2006", "U+2007", "U+2008", "U+2009", "U+200A",
     "U+2028", "U+2029", "U+202F", "U+205F", "U+3000"}

\* the characters int() skips at both ends: it leaves the separators
\* U+001C to U+001F where they are
IntWhitespace == Whitespace \ {"", "", "", ""}

\* str.isdigit(): non-empty and every character a digit
isdigit(s) ==
    /\ Len(s) > 0
    /\ \A i \in 1..Len(s) : s[i] \in Digits \cup OtherDigits

\* s without the characters of chars at its two ends
RECURSIVE strip_chars(_, _)
strip_chars(s, chars) ==
    IF Len(s) > 0 /\ s[1] \in chars THEN strip_chars(Tail(s), chars)
    ELSE IF Len(s) > 0 /\ s[Len(s)] \in chars
    THEN strip_chars(SubSeq(s, 1, Len(s) - 1), chars)
    ELSE s

\* str.strip()
strip(s) == strip_chars(s, Whitespace)

\* the digits part of the literal int() reads: stripped, without its sign
unsigned(s) ==
    LET t == strip_chars(s, IntWhitespace)
    IN IF Len(t) > 0 /\ t[1] \in {"+", "-"} THEN Tail(t) ELSE t

\* sys.int_info.default_max_str_digits: int() refuses a literal of more digits
\* (Python 3.11, and the releases of 3.7 to 3.10 since September 2022)
int_max_str_digits == 4300

\* decimal digits, with single underscores between them, no more of them
\* than the interpreter converts
is_int_literal(d) ==
    /\ Len(d) > 0
    /\ \A i \in 1..Len(d) : d[i] \in Digits \cup {"_"}
    /\ d[1] # "_"
    /\ d[Len(d)] # "_"
    /\ \A i \in 1..(Len(d) - 1) : ~(d[i] = "_" /\ d[i + 1] = "_")
    /\ Len(SelectSeq(d, LAMBDA c : c # "_")) <= int_max_str_digits

\* what int(s) raises, "" when it raises nothing
int_error(s) == IF is_int_literal(unsigned(s)) THEN "" ELSE "ValueError"

\* the number without its leading zeros
significant(n) ==
    LET nonzero == {i \in 1..Len(n) : n[i] # 0}
    IN IF nonzero = {} THEN <<>>
       ELSE SubSeq(n, CHOOSE i \in nonzero : \A j \in nonzero : i <= j, Len(n))

\* the absolute value of int(s) in decimal, most significant digit first and
\* none for zero: Python's integers have no largest one
magnitude(s) ==
    LET d == SelectSeq(unsigned(s), LAMBDA c : c # "_")
    IN significant([i \in 1..Len(d) |-> DigitVal(d[i])])

\* int(s) < 0
is_negative(s) ==
    LET t == strip_chars(s, IntWhitespace)
    IN Len(t) > 0 /\ t[1] = "-" /\ magnitude(s) # <<>>

\* a < b for two numbers in decimal
big_less(a, b) ==
    \/ Len(a) < Len(b)
    \/ /\ Len(a) = Len(b)
       /\ \E i \in 1..Len(a) : a[i] < b[i] /\ \A j \in 1..(i - 1) : a[j] = b[j]

\* a sequence without its last element
Front(a) == SubSeq(a, 1, Len(a) - 1)

\* the decimal digits of a small natural number
RECURSIVE nat_digits(_)
nat_digits(n) == IF n = 0 THEN <<>> ELSE nat_digits(n \div 10) \o <<n % 10>>

RECURSIVE sum_digits(_, _, _)
sum_digits(a, b, carry) ==
    IF Len(a) = 0 /\ Len(b) = 0 THEN nat_digits(carry)
    ELSE LET x == IF Len(a) = 0 THEN 0 ELSE a[Len(a)]
             y == IF Len(b) = 0 THEN 0 ELSE b[Len(b)]
             d == x + y + carry
         IN sum_digits(Front(a), Front(b), d \div 10) \o <<d % 10>>

\* a + b for two numbers in decimal
big_sum(a, b) == significant(sum_digits(a, b, 0))

RECURSIVE difference_digits(_, _, _)
difference_digits(a, b, borrow) ==
    IF Len(a) = 0 THEN <<>>
    ELSE LET y == IF Len(b) = 0 THEN 0 ELSE b[Len(b)]
             d == a[Len(a)] - y - borrow
         IN difference_digits(Front(a), Front(b), IF d < 0 THEN 1 ELSE 0)
            \o <<d % 10>>

\* a - b for two numbers in decimal, a >= b
big_difference(a, b) == significant(difference_digits(a, b, 0))

RECURSIVE times_digits(_, _, _)
times_digits(a, k, carry) ==
    IF Len(a) = 0 THEN nat_digits(carry)
    ELSE LET d == a[Len(a)] * k + carry
         IN times_digits(Front(a), k, d \div 10) \o <<d % 10>>

\* a * k for a number a in decimal and a small natural number k
big_times(a, k) == significant(times_digits(a, k, 0))

RECURSIVE long_division(_, _)
long_division(a, d) ==
    IF Len(a) = 0 THEN [q |-> <<>>, r |-> 0]
    ELSE LET sub == long_division(Front(a), d)
             n == 10 * sub.r + a[Len(a)]
         IN [q |-> sub.q \o <<n \div d>>, r |-> n % d]

\* divmod(a, d) for a number a in decimal and a small d > 0
big_divmod(a, d) ==
    LET sub == long_division(a, d) IN [q |-> significant(sub.q), r |-> sub.r]

is_odd(a) == Len(a) > 0 /\ a[Len(a)] % 2 = 1

\* a Python integer of any size: its sign and its magnitude in decimal
Big(neg, mag) == [neg |-> neg /\ mag # <<>>, mag |-> mag]

\* a small integer as a Python integer
big(n) == Big(n < 0, nat_digits(IF n < 0 THEN -n ELSE n))

\* int(s) for a string that int() reads, of any size
big_int(s) == Big(is_negative(s), magnitude(s))

\* x + y
big_plus(x, y) ==
    IF x.neg = y.neg THEN Big(x.neg, big_sum(x.mag, y.mag))
    ELSE IF big_less(x.mag, y.mag) THEN Big(y.neg, big_difference(y.mag, x.mag))
    ELSE Big(x.neg, big_difference(x.mag, y.mag))

\* x - y
big_minus(x, y) == big_plus(x, Big(~y.neg, y.mag))

\* str(x)
str(x) ==
    IF x.mag = <<>> THEN <<"0">>
    ELSE (IF x.neg THEN <<"-">> ELSE <<>>)
         \o [i \in 1..Len(x.mag) |->
                <<"0", "1", "2", "3", "4", "5", "6", "7", "8", "9">>[x.mag[i] + 1]]

RECURSIVE int_digits(_)
int_digits(n) ==
    IF Len(n) = 0 THEN 0
    ELSE 10 * int_digits(SubSeq(n, 1, Len(n) - 1)) + n[Len(n)]

\* int(s) for a string that int() reads
int(s) == IF is_negative(s) THEN -int_digits(magnitude(s)) ELSE int_digits(magnitude(s))

\* ord(c) for the characters that paths are made of
ord(c) ==
    CASE c = "." -> 46 [] c = "/" -> 47 [] c = "a" -> 97 [] c = "b" -> 98
      [] c = "c" -> 99 [] c = "r" -> 114

\* s < t for strings: Python compares them character by character
RECURSIVE str_lt(_, _)
str_lt(s, t) ==
    IF Len(t) = 0 THEN FALSE
    ELSE IF Len(s) = 0 THEN TRUE
    ELSE IF s[1] # t[1] THEN ord(s[1]) < ord(t[1])
    ELSE str_lt(Tail(s), Tail(t))

\* s.startswith(prefix), s.endswith(suffix)
startswith(s, prefix) ==
    Len(prefix) <= Len(s) /\ SubSeq(s, 1, Len(prefix)) = prefix
endswith(s, suffix) ==
    Len(suffix) <= Len(s) /\ SubSeq(s, Len(s) - Len(suffix) + 1, Len(s)) = suffix

\* the position of the last sep in s, 0 when there is none
rfind(s, sep) ==
    IF \E i \in 1..Len(s) : s[i] = sep
    THEN CHOOSE i \in 1..Len(s) : s[i] = sep /\ \A j \in (i + 1)..Len(s) : s[j] # sep
    ELSE 0

\* s.rpartition(sep)[0] and s.rpartition(sep)[-1]
rpartition_head(s, sep) == IF rfind(s, sep) = 0 THEN <<>> ELSE SubSeq(s, 1, rfind(s, sep) - 1)
rpartition_tail(s, sep) == SubSeq(s, rfind(s, sep) + 1, Len(s))

\* os.path.basename(path)
basename(path) == SubSeq(path, rfind(path, "/") + 1, Len(path))

\* head.rstrip('/')
RECURSIVE rstrip_slashes(_)
rstrip_slashes(s) ==
    IF Len(s) > 0 /\ s[Len(s)] = "/" THEN rstrip_slashes(SubSeq(s, 1, Len(s) - 1))
    ELSE s

\* os.path.dirname(path): the head up to the last slash, without the slashes
\* that end it unless it is made of slashes only
dirname(path) ==
    LET head == SubSeq(path, 1, rfind(path, "/"))
    IN IF \A i \in 1..Len(head) : head[i] = "/" THEN head ELSE rstrip_slashes(head)

(***************************************************************************)
(* github_request (summary.py:165-179).  A response is its status code,    *)
(* the headers the code reads, and its body: a JSON object (with or        *)
(* without a "message"), a JSON list of items, or text that is not JSON.   *)
(***************************************************************************)
Statuses == {200, 399, 400, 403, 404, 499, 500}
Remainings == {Absent, Some("0"), Some("1")}
\* the string of n characters c
Repeat(c, n) == [i \in 1..n |-> c]

Resets == {Absent, Some(<<"0">>), Some(<<"6", "0">>), Some(<<"6", "1">>),
           Some(<<"3", "7", "2", "5">>), Some(<<>>), Some(<<"²">>),
           Some(<<" ", "+", "6", "_", "1", "\n">>), Some(<<"\f", "6", "1">>),
           Some(<<"U+0666", "U+0661">>), Some(<<"", "6", "1">>),
           Some(Repeat("9", int_max_str_digits + 1)),
           Some(<<"1">> \o Repeat("0", 400)),
           Some(<<"9", "2", "2", "3", "3", "7", "2", "0", "3", "6", "8", "5", "4", "7", "7", "5", "8", "0", "8">>),
           Some(<<"6", "7", "7", "6", "8", "0", "3", "6", "1", "9", "1", "6", "7", "6", "8", "0", "0">>),
           Some(<<"9", "0", "0", "7", "1", "9", "9", "2", "5", "4", "7", "4", "1", "0", "2", "1">>),
           Some(<<"6", "0", "0", "0", "0", "0", "0", "0", "0", "0", "0", "0", "0", "0", "0", "0", "1">>),
           Some(<<"-", "6", "7", "7", "6", "8", "0", "4", "0", "6", "0", "9", "7", "4", "0", "8", "0", "1">>)}
Nows == {0, 1, 100}

\* local time: its offset from UTC in seconds, and whether the C library works
\* the offset out from a rule (TZ=<XXX>-2:00:00) and not from the zone file
\* of a zone that never changed its offset (TZ=Etc/GMT-2)
Zone(offset, rule) == [offset |-> offset, rule |-> rule]
Zones == {Zone(0, FALSE), Zone(7200, FALSE), Zone(7200, TRUE), Zone(-3600, TRUE)}
Bodies == {[kind |-> "object", message |-> Some("oopie wopsie"), items |-> <<>>],
           [kind |-> "object", message |-> Absent, items |-> <<>>],
           [kind |-> "list", message |-> Absent, items |-> <<>>],
           [kind |-> "text", message |-> Absent, items |-> <<>>]}

Responses ==
    [status_code : Statuses, remaining : Remainings, reset : Resets,
     link : {<<>>}, body : Bodies]

NoResponse ==
    [status_code |-> 0, remaining |-> Absent, reset |-> Absent,
     link |-> <<>>, body |-> [kind |-> "text", message |-> Absent, items |-> <<>>]]

NoMessage == [text |-> "", minutes |-> <<>>, time |-> <<0, 0>>]
NoOutcome == [kind |-> "none", exc |-> "", message |-> NoMessage, res |-> NoResponse]

Return(r) == [kind |-> "return", exc |-> "", message |-> NoMessage, res |-> r]
Raise(exc, message) ==
    [kind |-> "raise", exc |-> exc, message |-> message, res |-> NoResponse]

\* class GitHubError(Exception), class GitHubRateLimitError(GitHubError)
IsInstance(exc, cls) ==
    \/ exc = cls
    \/ cls = "Exception" /\ exc # "KeyboardInterrupt"
    \/ cls = "GitHubError" /\ exc = "GitHubRateLimitError"

\* time.strftime('%H:%M', time.localtime(t)): hours and minutes of local time
strftime_HM(t, zone) ==
    LET local == big_plus(t, big(zone.offset))
        r == big_divmod(local.mag, 86400).r
        second == IF local.neg THEN (86400 - r) % 86400 ELSE r
    IN <<second \div 3600, (second \div 60) % 60>>

\* the test of line 168
is_rate_limited(r) == r.status_code = 403 /\ r.remaining = Some("0")

\* a test that takes the 5xx codes for errors too
is_client_or_server_error(r) == 400 <= r.status_code

\* the test of line 177
is_client_error(r) == 400 <= r.status_code /\ r.status_code < 500

\* 2^53: a float has 53 significant bits
TWO_53 == <<9, 0, 0, 7, 1, 9, 9, 2, 5, 4, 7, 4, 0, 9, 9, 2>>

\* 60 * 2^52
SIXTY_TWO_52 == <<2, 7, 0, 2, 1, 5, 9, 7, 7, 6, 4, 2, 2, 2, 9, 7, 6, 0>>

\* n, of which the bits below were cut off (half is the highest of them,
\* sticky tells whether any other is set), as the nearest number of 53
\* significant bits, the even one of two equally near
RECURSIVE round_half_even(_, _, _)
round_half_even(n, half, sticky) ==
    IF big_less(n, TWO_53)
    THEN IF half /\ (sticky \/ is_odd(n)) THEN big_sum(n, <<1>>) ELSE n
    ELSE IF big_less(n, big_times(TWO_53, 1024))
    THEN LET h == big_divmod(n, 2)
         IN big_times(round_half_even(h.q, h.r = 1, sticky \/ half), 2)
    ELSE LET h == big_divmod(n, 1024)
         IN big_times(round_half_even(h.q, h.r >= 512,
                                      sticky \/ half \/ h.r % 512 # 0), 1024)

\* float(x) for an integer x below FLOAT_END
float(x) == Big(x.neg, round_half_even(x.mag, FALSE, FALSE))

\* the value n of a float as m * 2^e with m < 2^53
RECURSIVE frexp(_)
frexp(n) ==
    IF big_less(n, TWO_53) THEN [m |-> n, e |-> 0]
    ELSE IF big_less(n, big_times(TWO_53, 1024))
    THEN LET sub == frexp(big_divmod(n, 2).q) IN [m |-> sub.m, e |-> sub.e + 1]
    ELSE LET sub == frexp(big_divmod(n, 1024).q) IN [m |-> sub.m, e |-> sub.e + 10]

\* m * 2^k for the first k that brings it to 60 * 2^52 or beyond
RECURSIVE scaled(_, _)
scaled(m, k) ==
    IF ~big_less(m, SIXTY_TWO_52) THEN [m |-> m, k |-> k]
    ELSE scaled(big_times(m, 2), k + 1)

\* n / 60 for the value n > 0 of a float: the nearest float m * 2^e
true_divide_60(n) ==
    LET f == frexp(n)
        s == scaled(f.m, 0)
        d == big_divmod(s.m, 60)
        m == IF d.r > 30 \/ (d.r = 30 /\ is_odd(d.q))
             THEN big_sum(d.q, <<1>>) ELSE d.q
    IN [m |-> m, e |-> f.e - s.k]

\* m * 2^e for e >= 0
RECURSIVE ldexp(_, _)
ldexp(m, e) ==
    IF e = 0 \/ m = <<>> THEN m
    ELSE IF e < 10 THEN ldexp(big_times(m, 2), e - 1)
    ELSE ldexp(big_times(m, 1024), e - 10)

\* m / 2^k: the whole part, and whether anything is left
RECURSIVE shift_right(_, _)
shift_right(m, k) ==
    IF k = 0 \/ m = <<>> THEN [q |-> m, rest |-> FALSE]
    ELSE LET h == big_divmod(m, 2)
             sub == shift_right(h.q, k - 1)
         IN [q |-> sub.q, rest |-> sub.rest \/ h.r = 1]

\* int(math.ceil(w / 60)) for a float w of a whole value.  Below 2^53 the
\* quotient of floats rounds up to what the true quotient rounds up to: it is
\* below 2^48 and so within 1/64 of the true one, which is a whole number (a
\* float, and then the quotient) or at least 1/60 away from the next one.
ceil_divide_60(w) ==
    IF big_less(w.mag, TWO_53)
    THEN LET d == big_divmod(w.mag, 60)
         IN IF w.neg THEN Big(TRUE, d.q)
            ELSE Big(FALSE, IF d.r > 0 THEN big_sum(d.q, <<1>>) ELSE d.q)
    ELSE LET v == true_divide_60(w.mag)
         IN IF v.e >= 0 THEN Big(w.neg, ldexp(v.m, v.e))
            ELSE LET sub == shift_right(v.m, 0 - v.e)
                 IN IF w.neg THEN Big(TRUE, sub.q)
                    ELSE Big(FALSE, IF sub.rest THEN big_sum(sub.q, <<1>>) ELSE sub.q)

\* line 170: reset_time - time.time() converts reset_time to a float and is
\* a float, and so is its quotient by 60
minutes_until(reset_time, t) ==
    ceil_divide_60(float(big_minus(float(reset_time), big(t))))

\* what evaluating res.json()['message'] raises, "" when it raises nothing
json_message_error(r) ==
    CASE r.body.kind = "text" -> "ValueError"
      [] r.body.kind = "list" -> "TypeError"
      [] r.body.message = Absent -> "KeyError"
      [] OTHER -> ""

\* res.json()['message']
json_message(r) == r.body.message[1]

\* 2^1024 - 2^970: from here on an integer is too large to convert to float
FLOAT_END ==
    <<1, 7, 9, 7, 6, 9, 3, 1, 3, 4, 8, 6, 2, 3, 1, 5, 8, 0, 7, 9, 3, 7, 2, 8,
      9, 7, 1, 4, 0, 5, 3, 0, 3, 4, 1, 5, 0, 7, 9, 9, 3, 4, 1, 3, 2, 7, 1, 0,
      0, 3, 7, 8, 2, 6, 9, 3, 6, 1, 7, 3, 7, 7, 8, 9, 8, 0, 4, 4, 4, 9, 6, 8,
      2, 9, 2, 7, 6, 4, 7, 5, 0, 9, 4, 6, 6, 4, 9, 0, 1, 7, 9, 7, 7, 5, 8, 7,
      2, 0, 7, 0, 9, 6, 3, 3, 0, 2, 8, 6, 4, 1, 6, 6, 9, 2, 8, 8, 7, 9, 1, 0,
      9, 4, 6, 5, 5, 5, 5, 4, 7, 8, 5, 1, 9, 4, 0, 4, 0, 2, 6, 3, 0, 6, 5, 7,
      4, 8, 8, 6, 7, 1, 5, 0, 5, 8, 2, 0, 6, 8, 1, 9, 0, 8, 9, 0, 2, 0, 0, 0,
      7, 0, 8, 3, 8, 3, 6, 7, 6, 2, 7, 3, 8, 5, 4, 8, 4, 5, 8, 1, 7, 7, 1, 1,
      5, 3, 1, 7, 6, 4, 4, 7, 5, 7, 3, 0, 2, 7, 0, 0, 6, 9, 8, 5, 5, 5, 7, 1,
      3, 6, 6, 9, 5, 9, 6, 2, 2, 8, 4, 2, 9, 1, 4, 8, 1, 9, 8, 6, 0, 8, 3, 4,
      9, 3, 6, 4, 7, 5, 2, 9, 2, 7, 1, 9, 0, 7, 4, 1, 6, 8, 4, 4, 4, 3, 6, 5,
      5, 1, 0, 7, 0, 4, 3, 4, 2, 7, 1, 1, 5, 5, 9, 6, 9, 9, 5, 0, 8, 0, 9, 3,
      0, 4, 2, 8, 8, 0, 1, 7, 7, 9, 0, 4, 1, 7, 4, 4, 9, 7, 7, 9, 2>>

\* 2^63: the first timestamp beyond the time_t of a 64-bit platform
TIME_T_END == <<9, 2, 2, 3, 3, 7, 2, 0, 3, 6, 8, 5, 4, 7, 7, 5, 8, 0, 8>>

\* the first second of the local year 2147485548, which time.strftime cannot
\* store, and of the year 2147485549, which localtime() of the C library
\* cannot; the last second (counted back from 1970) whose year it cannot
STRFTIME_END == <<6, 7, 7, 6, 7, 9, 7, 6, 2, 3, 3, 5, 3, 2, 8, 0, 0>>
LOCALTIME_END == <<6, 7, 7, 6, 8, 0, 3, 6, 1, 9, 1, 6, 7, 6, 8, 0, 0>>
LOCALTIME_BEGIN == <<6, 7, 7, 6, 8, 0, 4, 0, 6, 0, 9, 7, 4, 0, 8, 0, 1>>

\* what reset_time - time.time() of line 170 raises for reset_time = int(s)
float_error(s) == IF big_less(magnitude(s), FLOAT_END) THEN "" ELSE "OverflowError"

\* the C library cannot store the year of the second x
year_overflows(x) ==
    IF x.neg THEN ~big_less(x.mag, LOCALTIME_BEGIN)
    ELSE ~big_less(x.mag, LOCALTIME_END)

\* what time.strftime('%H:%M', time.localtime(int(s))) of line 175 raises
\* (Linux, 64-bit time_t): the C library converts the second as local time,
\* and as UTC before that when it works the offset out from a rule
localtime_error(s, zone) ==
    LET t == big_int(s)
        local == big_plus(t, big(zone.offset))
    IN IF ~t.neg /\ ~big_less(t.mag, TIME_T_END) THEN "OverflowError"
       ELSE IF t.neg /\ big_less(TIME_T_END, t.mag) THEN "OverflowError"
       ELSE IF year_overflows(local) \/ (zone.rule /\ year_overflows(t))
       THEN "OSError"
       ELSE IF ~local.neg /\ ~big_less(local.mag, STRFTIME_END)
       THEN "OverflowError"
       ELSE ""

\* lines 166-179; the arguments of format() are evaluated in the order
\* written, res.json()['message'] of line 174 before the time of line 175
github_request(r, t, zone) ==
    IF is_rate_limited(r)
    THEN IF r.reset = Absent
         THEN Raise("KeyError", NoMessage)
         ELSE IF int_error(r.reset[1]) # ""
         THEN Raise(int_error(r.reset[1]), NoMessage)
         ELSE IF float_error(r.reset[1]) # ""
         THEN Raise(float_error(r.reset[1]), NoMessage)
         ELSE IF json_message_error(r) # ""
         THEN Raise(json_message_error(r), NoMessage)
         ELSE IF localtime_error(r.reset[1], zone) # ""
         THEN Raise(localtime_error(r.reset[1], zone), NoMessage)
         ELSE LET reset_time == big_int(r.reset[1])
                  minutes == minutes_until(reset_time, t)
              IN Raise("GitHubRateLimitError",
                       [text |-> json_message(r), minutes |-> str(minutes),
                        time |-> strftime_HM(reset_time, zone)])
    ELSE IF is_client_error(r)
    THEN IF json_message_error(r) # ""
         THEN Raise(json_message_error(r), NoMessage)
         ELSE Raise("GitHubError", [NoMessage EXCEPT !.text = json_message(r)])
    ELSE Return(r)

Request ==
    /\ outcome.kind = "none"
    /\ outcome' = github_request(response, now, tz)
    /\ UNCHANGED <<response, now, tz, reifyVars, listVars, projVars, mainVars, callVars>>

InitRequest ==
    /\ response \in Responses
    /\ now \in Nows
    /\ tz \in Zones
    /\ outcome = NoOutcome

IdleRequest ==
    /\ response = NoResponse
    /\ now = 0
    /\ tz = Zone(0, FALSE)
    /\ outcome = NoOutcome

NextRequest == Request

(***************************************************************************)
(* github_request_list (summary.py:186-194).  The endpoint answers the     *)
(* query without a page parameter with its first page and the query        *)
(* page=k with its k-th page.  The Link header is the sequence of its rel  *)
(* values (empty when the header is absent); an item is <<page, index>>.   *)
(***************************************************************************)
MaxPages == 3
MaxItems == 2
BatchSizes == {100, 30}
Links == {<<>>, <<"next">>, <<"prev">>, <<"prev", "next">>}

ItemsOf(k, n) == [j \in 1..n |-> <<k, j>>]
ListBody(items) == [kind |-> "list", message |-> Absent, items |-> items]
TextBody == [kind |-> "text", message |-> Absent, items |-> <<>>]
MessageBody == [kind |-> "object", message |-> Some("Not Found"), items |-> <<>>]
ServerErrorBody == [kind |-> "object", message |-> Some("Server Error"), items |-> <<>>]
EmptyObjectBody == [kind |-> "object", message |-> Absent, items |-> <<>>]

PageResponse(status, link, body) ==
    [status_code |-> status, remaining |-> Absent, reset |-> Absent,
     link |-> link, body |-> body]

\* the responses the endpoint may give for page k
PageResponses(k) ==
    {PageResponse(200, l, ListBody(ItemsOf(k, n))) :
        l \in {<<>>, <<"next">>}, n \in 1..MaxItems}
    \cup {PageResponse(200, <<"prev">>, ListBody(ItemsOf(k, 1))),
          PageResponse(200, <<"prev", "next">>, ListBody(<<>>))}
    \cup {PageResponse(500, l, ListBody(ItemsOf(k, 1))) : l \in {<<>>, <<"next">>}}
    \cup {PageResponse(200, <<>>, TextBody), PageResponse(404, <<>>, MessageBody)}
    \cup {PageResponse(500, <<>>, ServerErrorBody),
          PageResponse(200, <<"next">>, EmptyObjectBody),
          PageResponse(404, <<"next">>, MessageBody)}

\* the endpoints of k pages
RECURSIVE ServersOf(_)
ServersOf(k) ==
    IF k = 0 THEN {<<>>}
    ELSE {Append(f, r) : f \in ServersOf(k - 1), r \in PageResponses(k)}

Servers == ServersOf(MaxPages)

Query(size, pg) == [per_page |-> size, page |-> pg]

\* requests.get on the endpoint
Get(q) == server[IF q.page = Absent THEN 1 ELSE q.page[1]]

\* taking any Link header for the announcement of a next page
has_next_any_link(r) == r.link # <<>>

\* 'rel="next"' in res.headers.get('Link', '')
has_next(r) == \E i \in 1..Len(r.link) : r.link[i] = "next"

\* what iterating over a JSON value gives: the items of a list, the keys of
\* an object (a key is written <<key>>, an item <<page, index>>)
iterate(body) ==
    IF body.kind = "list" THEN body.items
    ELSE IF body.message = Absent THEN <<>>
    ELSE <<<<"message">>>>

\* what looking up result.extend raises, "" when it raises nothing
extend_error(value) == IF value.kind = "list" THEN "" ELSE "AttributeError"

\* assignment instead of extend
extend_replaces(list, items) == [list EXCEPT !.items = items]

\* result.extend(items)
extend(list, items) == [list EXCEPT !.items = @ \o items]

\* the query of line 192
page_query(size, pg) == Query(size, Some(pg))

\* lines 187-188: the first request, and its JSON as the result so far
ListStart ==
    /\ listPc = "start"
    /\ LET q == Query(batch_size, Absent)
       IN \E out \in {github_request(Get(q), now, tz)} :
          /\ requests' = Append(requests, q)
          /\ IF out.kind = "raise"
             THEN /\ listPc' = "raised"
                  /\ raised' = out.exc
                  /\ UNCHANGED <<res, result>>
             ELSE IF out.res.body.kind = "text"
             THEN /\ listPc' = "raised"
                  /\ raised' = "ValueError"
                  /\ res' = out.res
                  /\ UNCHANGED result
             ELSE /\ listPc' = "loop"
                  /\ res' = out.res
                  /\ result' = out.res.body
                  /\ UNCHANGED raised
    /\ UNCHANGED <<server, batch_size, page, reifyVars, requestVars, projVars, mainVars, callVars>>

\* lines 190-191 and 194: no next link, so leave the loop and return
ListReturn ==
    /\ listPc = "loop"
    /\ ~has_next(res)
    /\ listPc' = "returned"
    /\ UNCHANGED <<server, batch_size, page, res, result, requests, raised,
                   reifyVars, requestVars, projVars, mainVars, callVars>>

\* lines 192-193: request the next page and append its items; result.extend
\* is looked up before res.json() is called.  The loop of line 189 counts
\* without end; page <= MaxPages bounds the pages explored here and is no
\* limit of the client
ListNextPage ==
    /\ listPc = "loop"
    /\ has_next(res)
    /\ page <= MaxPages
    /\ LET q == page_query(batch_size, page)
       IN \E out \in {github_request(Get(q), now, tz)} :
          /\ requests' = Append(requests, q)
          /\ IF out.kind = "raise"
             THEN /\ listPc' = "raised"
                  /\ raised' = out.exc
                  /\ UNCHANGED <<res, result, page>>
             ELSE IF extend_error(result) # ""
             THEN /\ listPc' = "raised"
                  /\ raised' = extend_error(result)
                  /\ res' = out.res
                  /\ UNCHANGED <<result, page>>
             ELSE IF out.res.body.kind = "text"
             THEN /\ listPc' = "raised"
                  /\ raised' = "ValueError"
                  /\ res' = out.res
                  /\ UNCHANGED <<result, page>>
             ELSE /\ res' = out.res
                  /\ result' = extend(result, iterate(out.res.body))
                  /\ page' = page + 1
                  /\ UNCHANGED <<listPc, raised>>
    /\ UNCHANGED <<server, batch_size, reifyVars, requestVars, projVars, mainVars, callVars>>

InitList ==
    /\ server \in Servers
    /\ batch_size \in BatchSizes
    /\ listPc = "start"
    /\ page = 2
    /\ res = NoResponse
    /\ result = ListBody(<<>>)
    /\ requests = <<>>
    /\ raised = ""

IdleList ==
    /\ server = [k \in 1..MaxPages |-> NoResponse]
    /\ batch_size = 100
    /\ listPc = "start"
    /\ page = 2
    /\ res = NoResponse
    /\ result = ListBody(<<>>)
    /\ requests = <<>>
    /\ raised = ""

NextList ==
    \/ ListStart
    \/ ListReturn
    \/ ListNextPage

(***************************************************************************)
(* URLs and names (summary.py:210-236)                                     *)
(***************************************************************************)
GIT_PREFIX == <<"g", "i", "t", ":", "/", "/", "g", "i", "t", "h", "u", "b", ".", "c", "o", "m", "/">>
SSH_PREFIX == <<"g", "i", "t", "@", "g", "i", "t", "h", "u", "b", ".", "c", "o", "m", ":">>
HTTPS_PREFIX == <<"h", "t", "t", "p", "s", ":", "/", "/", "g", "i", "t", "h", "u", "b", ".", "c", "o", "m", "/">>
DOT_GIT == <<".", "g", "i", "t">>

\* url[len(prefix):]
drop(s, n) == SubSeq(s, n + 1, Len(s))

\* a slip in the replacement of line 221: the SSH prefix for the HTTPS one
normalize_git_to_ssh(url) ==
    IF url = None \/ url = <<>> THEN url
    ELSE LET u == IF startswith(url, GIT_PREFIX)
                  THEN SSH_PREFIX \o drop(url, Len(GIT_PREFIX))
                  ELSE IF startswith(url, SSH_PREFIX)
                  THEN HTTPS_PREFIX \o drop(url, Len(SSH_PREFIX))
                  ELSE url
         IN IF ~startswith(u, HTTPS_PREFIX) THEN u
            ELSE IF endswith(u, DOT_GIT) THEN SubSeq(u, 1, Len(u) - Len(DOT_GIT))
            ELSE u

\* the .git suffix stripped before the test of line 224 instead of after it
normalize_strips_any_git(url) ==
    IF url = None \/ url = <<>> THEN url
    ELSE LET u == IF startswith(url, GIT_PREFIX)
                  THEN HTTPS_PREFIX \o drop(url, Len(GIT_PREFIX))
                  ELSE IF startswith(url, SSH_PREFIX)
                  THEN HTTPS_PREFIX \o drop(url, Len(SSH_PREFIX))
                  ELSE url
         IN IF endswith(u, DOT_GIT) THEN SubSeq(u, 1, Len(u) - Len(DOT_GIT))
            ELSE u

normalize_github_url(url) ==
    IF url = None \/ url = <<>> THEN url
    ELSE LET u == IF startswith(url, GIT_PREFIX)
                  THEN HTTPS_PREFIX \o drop(url, Len(GIT_PREFIX))
                  ELSE IF startswith(url, SSH_PREFIX)
                  THEN HTTPS_PREFIX \o drop(url, Len(SSH_PREFIX))
                  ELSE url
         IN IF ~startswith(u, HTTPS_PREFIX) THEN u
            ELSE IF endswith(u, DOT_GIT) THEN SubSeq(u, 1, Len(u) - Len(DOT_GIT))
            ELSE u

get_project_owner(url) == rpartition_tail(rpartition_head(url, "/"), "/")

get_project_name(url) == rpartition_tail(url, "/")

(***************************************************************************)
(* The working trees on disk, get_repos (summary.py:201-207) and           *)
(* get_projects (summary.py:538-550).  A glob pattern is what it matches.  *)
(***************************************************************************)
MaxPatterns == 2

DIR_A == <<"/", "r", "/", "a">>
DIR_B == <<"/", "r", "/", "b">>
DIR_C == <<"/", "r", "/", "c">>
Dirs == {DIR_A, DIR_B, DIR_C}

\* os.path.isdir(os.path.join(dirname, '.git'))
is_git(d) == d \in {DIR_A, DIR_B}
GitDirs == {d \in Dirs : is_git(d)}

SSH_URL_A == <<"g", "i", "t", "@", "g", "i", "t", "h", "u", "b", ".", "c", "o", "m", ":", "o", "/", "a", ".", "g", "i", "t">>
ORIGIN == <<"o", "r", "i", "g", "i", "n">>

\* remote.origin.url of a working tree: the URL configured, which may end
\* in white space or be empty, or no remote of that name
Remotes(d) ==
    IF d = DIR_A THEN {Some(SSH_URL_A), Some(SSH_URL_A \o <<"\f">>)}
    ELSE {Absent, Some(<<>>)}

\* git ls-remote --get-url origin, stripped: git prints the URL configured
\* for origin and, where there is no such remote or no repository, the name
\* it was given
get_repo_url(d) ==
    IF d \in DOMAIN repo /\ repo[d].origin # Absent
    THEN strip(repo[d].origin[1])
    ELSE ORIGIN

\* glob.glob(os.path.expanduser(path)) for the patterns ~/r/* and ~/r/a
Patterns == {"~/r/*", "~/r/a"}
glob(pattern) == IF pattern = "~/r/*" THEN <<DIR_B, DIR_C, DIR_A>> ELSE <<DIR_A>>

Branches == {"master", "devel"}
Tags == {"", "1.0"}
NewTag == "1.1"

\* git rev-parse --abbrev-ref HEAD of a checkout that is on a branch
get_branch_name(d) == repo[d].branch

\* git describe --tags --abbrev=0, stripped: "" when there is no tag
get_last_tag(d) == repo[d].tag

RECURSIVE insert(_, _)
\* an insertion that keeps one copy of equal paths
insert_unless_present(x, sorted) ==
    IF \E i \in 1..Len(sorted) : sorted[i] = x THEN sorted
    ELSE SelectSeq(sorted, LAMBDA y : str_lt(y, x)) \o <<x>>
         \o SelectSeq(sorted, LAMBDA y : ~str_lt(y, x))

\* sorted(list): insertion of each element into the sorted rest
insert(x, sorted) ==
    IF Len(sorted) = 0 THEN <<x>>
    ELSE IF str_lt(x, sorted[1]) THEN <<x>> \o sorted
    ELSE <<sorted[1]>> \o insert(x, Tail(sorted))

RECURSIVE sorted(_)
sorted(list) == IF Len(list) = 0 THEN <<>> ELSE insert(list[1], sorted(Tail(list)))

\* the generator expression of get_repos, over the patterns from the i-th on
RECURSIVE matching_dirs(_, _)
matching_dirs(paths, i) ==
    IF i > Len(paths) THEN <<>>
    ELSE SelectSeq(glob(paths[i]), is_git) \o matching_dirs(paths, i + 1)

get_repos(cfg) == sorted(matching_dirs(cfg.projects, 1))

NoFacts == [url |-> Absent, branch |-> Absent, last_tag |-> Absent]

\* Project(working_tree, config): nothing is computed yet
Project(path) == [working_tree |-> path, facts |-> NoFacts,
                  fetched |-> FALSE, pulled |-> FALSE]

NoProject == Project(<<>>)

\* the reified Project.url, Project.branch, Project.last_tag: read through the cache
url_of(proj) ==
    IF proj.facts.url # Absent THEN proj.facts.url[1]
    ELSE normalize_github_url(get_repo_url(proj.working_tree))
branch_of(proj) ==
    IF proj.facts.branch # Absent THEN proj.facts.branch[1]
    ELSE get_branch_name(proj.working_tree)
last_tag_of(proj) ==
    IF proj.facts.last_tag # Absent THEN proj.facts.last_tag[1]
    ELSE get_last_tag(proj.working_tree)

\* Project.name (summary.py:369-374)
name_of(proj) ==
    IF url_of(proj) # None /\ url_of(proj) # <<>>
    THEN get_project_name(url_of(proj))
    ELSE basename(proj.working_tree)

\* an ignore test that never matches
is_ignored_never(proj, cfg) == FALSE

\* the tests of get_projects
is_ignored(proj, cfg) == \E i \in 1..Len(cfg.ignore) : cfg.ignore[i] = name_of(proj)

\* a filter that never looks at the branch
is_skipped_branch_never(proj, cfg) == FALSE

\* lines 543-544
is_skipped_branch(proj, cfg) == cfg.skip_branches /\ branch_of(proj) # "master"
has_last_tag(proj) == last_tag_of(proj) # ""

\* history: how the iteration over p ended, with the git state at that moment
LogEntry(proj, was_yielded) ==
    [working_tree |-> proj.working_tree,
     name |-> name_of(proj),
     branch |-> repo[proj.working_tree].branch,
     tag |-> repo[proj.working_tree].tag,
     fetched |-> proj.fetched, pulled |-> proj.pulled,
     yielded |-> was_yielded]

OthersUnchangedByProjects == UNCHANGED <<reifyVars, requestVars, listVars, mainVars, callVars>>

\* line 539: get_repos(config) is evaluated when the generator starts
GetRepos ==
    /\ projPc = "start"
    /\ repos' = get_repos(config)
    /\ projPc' = "next"
    /\ UNCHANGED <<config, repo, idx, p, yielded, log>>
    /\ OthersUnchangedByProjects

\* lines 539-540: the next path, wrapped in a new Project
NewProject ==
    /\ projPc = "next"
    /\ idx < Len(repos)
    /\ idx' = idx + 1
    /\ p' = Project(repos[idx + 1])
    /\ projPc' = "ignore"
    /\ UNCHANGED <<config, repo, repos, yielded, log>>
    /\ OthersUnchangedByProjects

\* the loop is exhausted
Exhausted ==
    /\ projPc = "next"
    /\ idx = Len(repos)
    /\ projPc' = "done"
    /\ UNCHANGED <<config, repo, repos, idx, p, yielded, log>>
    /\ OthersUnchangedByProjects

\* a loop body that reads p.last_tag first, before any update
CheckIgnoreReadsTagFirst ==
    /\ projPc = "ignore"
    /\ LET q == [p EXCEPT !.facts.url = Some(url_of(p)),
                          !.facts.last_tag = Some(last_tag_of(p))]
       IN /\ p' = q
          /\ IF is_ignored(q, config)
             THEN /\ projPc' = "next"
                  /\ log' = Append(log, LogEntry(q, FALSE))
             ELSE /\ projPc' = "branch"
                  /\ UNCHANGED log
    /\ UNCHANGED <<config, repo, repos, idx, yielded>>
    /\ OthersUnchangedByProjects

\* lines 541-542: p.name reads, and caches, p.url
CheckIgnore ==
    /\ projPc = "ignore"
    /\ LET q == [p EXCEPT !.facts.url = Some(url_of(p))]
       IN /\ p' = q
          /\ IF is_ignored(q, config)
             THEN /\ projPc' = "next"
                  /\ log' = Append(log, LogEntry(q, FALSE))
             ELSE /\ projPc' = "branch"
                  /\ UNCHANGED log
    /\ UNCHANGED <<config, repo, repos, idx, yielded>>
    /\ OthersUnchangedByProjects

\* lines 543-544: p.branch is read only when skip_branches is set
CheckBranch ==
    /\ projPc = "branch"
    /\ LET q == IF config.skip_branches
                THEN [p EXCEPT !.facts.branch = Some(branch_of(p))]
                ELSE p
       IN /\ p' = q
          /\ IF is_skipped_branch(q, config)
             THEN /\ projPc' = "next"
                  /\ log' = Append(log, LogEntry(q, FALSE))
             ELSE /\ projPc' = "fetch"
                  /\ UNCHANGED log
    /\ UNCHANGED <<config, repo, repos, idx, yielded>>
    /\ OthersUnchangedByProjects

\* git fetch / git pull may bring a new last tag into the working tree
Updated(d) ==
    \E t \in {repo[d].tag, NewTag} : repo' = [repo EXCEPT ![d].tag = t]

\* lines 545-546
Fetch ==
    /\ projPc = "fetch"
    /\ IF config.fetch
       THEN /\ Updated(p.working_tree)
            /\ p' = [p EXCEPT !.fetched = TRUE]
       ELSE UNCHANGED <<repo, p>>
    /\ projPc' = "pull"
    /\ UNCHANGED <<config, repos, idx, yielded, log>>
    /\ OthersUnchangedByProjects

\* lines 547-548
Pull ==
    /\ projPc = "pull"
    /\ IF config.pull
       THEN /\ Updated(p.working_tree)
            /\ p' = [p EXCEPT !.pulled = TRUE]
       ELSE UNCHANGED <<repo, p>>
    /\ projPc' = "tag"
    /\ UNCHANGED <<config, repos, idx, yielded, log>>
    /\ OthersUnchangedByProjects

\* lines 549-550: p.last_tag is read, and cached; yield p when it is not empty
CheckTag ==
    /\ projPc = "tag"
    /\ LET q == [p EXCEPT !.facts.last_tag = Some(last_tag_of(p))]
       IN /\ p' = q
          /\ yielded' = IF has_last_tag(q) THEN Append(yielded, q) ELSE yielded
          /\ log' = Append(log, LogEntry(q, has_last_tag(q)))
    /\ projPc' = "next"
    /\ UNCHANGED <<config, repo, repos, idx>>
    /\ OthersUnchangedByProjects

\* the lists of at most n patterns
RECURSIVE PatternLists(_)
PatternLists(n) ==
    IF n = 0 THEN {<<>>}
    ELSE PatternLists(n - 1)
         \cup {Append(l, x) : l \in {m \in PatternLists(n - 1) : Len(m) = n - 1},
                              x \in Patterns}

IgnoreLists == {<<>>, <<<<"a">>>>, <<<<"b">>, <<"c">>>>, <<ORIGIN>>}

Configurations ==
    [projects : PatternLists(MaxPatterns), ignore : IgnoreLists,
     skip_branches : BOOLEAN, fetch : BOOLEAN, pull : BOOLEAN]

InitProjects ==
    /\ config \in Configurations
    /\ repo \in {f \in [GitDirs -> [branch : Branches, tag : Tags,
                                    origin : UNION {Remotes(d) : d \in GitDirs}]] :
                    \A d \in GitDirs : f[d].origin \in Remotes(d)}
    /\ repos = <<>>
    /\ idx = 0
    /\ projPc = "start"
    /\ p = NoProject
    /\ yielded = <<>>
    /\ log = <<>>

IdleProjects ==
    /\ config = [projects |-> <<>>, ignore |-> <<>>, skip_branches |-> FALSE,
                 fetch |-> FALSE, pull |-> FALSE]
    /\ repo = [d \in GitDirs |-> [branch |-> "master", tag |-> "", origin |-> Absent]]
    /\ repos = <<>>
    /\ idx = 0
    /\ projPc = "start"
    /\ p = NoProject
    /\ yielded = <<>>
    /\ log = <<>>

NextProjects ==
    \/ GetRepos
    \/ NewProject
    \/ Exhausted
    \/ CheckIgnore
    \/ CheckBranch
    \/ Fetch
    \/ Pull
    \/ CheckTag

(***************************************************************************)
(* Project.coverage_number (summary.py:447-463) and the facts a report row *)
(* reads.  A project's surroundings are its URL, whether .travis.yml       *)
(* exists, what requests.get gives for its coveralls badge, and which      *)
(* exception, if any, its GitHub issues request, its git facts and its     *)
(* setup.py --classifiers raise.                                           *)
(***************************************************************************)
COVERALLS_PREFIX == <<"h", "t", "t", "p", "s", ":", "/", "/", "s", "3", ".", "a", "m", "a", "z", "o", "n", "a", "w", "s", ".", "c", "o", "m", "/", "a", "s", "s", "e", "t", "s", ".", "c", "o", "v", "e", "r", "a", "l", "l", "s", ".", "i", "o", "/", "b", "a", "d", "g", "e", "s", "/", "c", "o", "v", "e", "r", "a", "l", "l", "s", "_">>
COVERALLS_SUFFIX == <<".", "s", "v", "g">>

URL_GITHUB == <<"h", "t", "t", "p", "s", ":", "/", "/", "g", "i", "t", "h", "u", "b", ".", "c", "o", "m", "/", "o", "/", "a">>
URL_ELSEWHERE == <<"h", "t", "t", "p", "s", ":", "/", "/", "e", "x", "a", "m", "p", "l", "e", ".", "c", "o", "m", "/", "c">>

\* requests.get(url, allow_redirects=False): a response, or an exception
Reply(status, location) == [raises |-> "", status_code |-> status, location |-> location]
ReplyRaises(exc) == [raises |-> exc, status_code |-> 0, location |-> Absent]

BADGE_87 == COVERALLS_PREFIX \o <<"8", "7">> \o COVERALLS_SUFFIX
BADGE_SUPERSCRIPT == COVERALLS_PREFIX \o <<"²">> \o COVERALLS_SUFFIX
BADGE_FULLWIDTH_87 == COVERALLS_PREFIX \o <<"U+FF18", "U+FF17">> \o COVERALLS_SUFFIX
BADGE_UNKNOWN == COVERALLS_PREFIX \o <<"u", "n", "k", "n", "o", "w", "n">> \o COVERALLS_SUFFIX

Surroundings(url, travis_yml, coveralls, issues, git, classifiers) ==
    [url |-> url, travis_yml |-> travis_yml, coveralls |-> coveralls,
     issues |-> issues, git |-> git, classifiers |-> classifiers]

ProjectKinds ==
    {Surroundings(URL_ELSEWHERE, TRUE, Reply(200, Absent), "", "", ""),
     Surroundings(URL_GITHUB, FALSE, Reply(200, Absent), "", "", ""),
     Surroundings(URL_GITHUB, TRUE, Reply(302, Some(BADGE_87)), "", "", ""),
     Surroundings(URL_GITHUB, TRUE, Reply(302, Some(BADGE_UNKNOWN)), "", "", ""),
     Surroundings(URL_GITHUB, TRUE, Reply(302, Some(BADGE_SUPERSCRIPT)), "", "", ""),
     Surroundings(URL_GITHUB, TRUE, Reply(302, Some(BADGE_FULLWIDTH_87)), "", "", ""),
     Surroundings(URL_GITHUB, TRUE, Reply(302, Some(URL_ELSEWHERE)), "", "", ""),
     Surroundings(URL_GITHUB, TRUE, Reply(302, Absent), "", "", ""),
     Surroundings(URL_GITHUB, TRUE, Reply(200, Some(BADGE_87)), "", "", ""),
     Surroundings(URL_GITHUB, TRUE, ReplyRaises("ConnectionError"), "", "", ""),
     Surroundings(URL_GITHUB, FALSE, Reply(200, Absent), "GitHubError", "", ""),
     Surroundings(URL_GITHUB, FALSE, Reply(200, Absent), "GitHubRateLimitError", "", ""),
     Surroundings(URL_GITHUB, FALSE, Reply(200, Absent), "ConnectionError", "", ""),
     Surroundings(URL_GITHUB, FALSE, Reply(200, Absent), "HTTPError", "", ""),
     Surroundings(URL_ELSEWHERE, FALSE, Reply(200, Absent), "", "ValueError", ""),
     Surroundings(URL_ELSEWHERE, FALSE, Reply(200, Absent), "", "KeyboardInterrupt", ""),
     Surroundings(URL_ELSEWHERE, FALSE, Reply(200, Absent), "", "", "KeyboardInterrupt")}

\* Project.is_on_github (summary.py:326-328)
is_on_github(e) == startswith(e.url, HTTPS_PREFIX)

\* Project.uses_travis (summary.py:330-334)
uses_travis(e) == IF ~is_on_github(e) THEN FALSE ELSE e.travis_yml

\* the value of a fact, or the exception that computing it raised
Value(v) == [raises |-> "", value |-> v]
Raises(exc) == [raises |-> exc, value |-> Absent]

\* lines 454-463: the number the redirect of the badge embeds, None otherwise;
\* line 463 raises what int() raises on a number part it cannot read
parse_coverage(reply) ==
    IF reply.status_code # 302 \/ reply.location = Absent \/ reply.location = Some(<<>>)
    THEN Value(Absent)
    ELSE LET location == reply.location[1] IN
         IF startswith(location, COVERALLS_PREFIX) /\ endswith(location, COVERALLS_SUFFIX)
         THEN LET coverage == SubSeq(location, Len(COVERALLS_PREFIX) + 1,
                                     Len(location) - Len(COVERALLS_SUFFIX))
              IN IF ~isdigit(coverage) THEN Value(Absent)
                 ELSE IF int_error(coverage) # "" THEN Raises(int_error(coverage))
                 ELSE Value(Some(int(coverage)))
         ELSE Value(Absent)

\* line 453: what requests.get raises leaves coverage_number as it is raised
coverage_fetch(reply) ==
    IF reply.raises # "" THEN Raises(reply.raises) ELSE parse_coverage(reply)

\* Project.coverage_number: None (Absent) when there is no coveralls badge
coverage_number(e) ==
    IF ~uses_travis(e) THEN Value(Absent) ELSE coverage_fetch(e.coveralls)

\* Project.github_issues_and_pulls (summary.py:491-497), as far as it raises
github_issues_and_pulls(e) ==
    IF ~is_on_github(e) THEN Value(Absent)
    ELSE IF e.issues # "" THEN Raises(e.issues) ELSE Value(Absent)

\* the git facts the first table and the line of the text report read:
\* last_tag_date and pending_commits
git_facts(e) == IF e.git # "" THEN Raises(e.git) ELSE Value(Absent)

\* Project.python_versions (summary.py:487-489), as far as it raises
python_versions(e) ==
    IF e.classifiers # "" THEN Raises(e.classifiers) ELSE Value(Absent)

\* the tables of the template (summary.py:690-812), in the order of the page
TabPanes == <<"release-status", "maintenance", "python-versions">>

\* one row of table t of the HTML report: the first exception the facts it
\* reads raise, or the row
render_row(t, e) ==
    LET rendered(number) ==
            Value(Some([table |-> TabPanes[t], url |-> e.url,
                        coverage_number |-> number]))
    IN CASE TabPanes[t] = "release-status" ->
              IF git_facts(e).raises # "" THEN Raises(git_facts(e).raises)
              ELSE rendered(Absent)
         [] TabPanes[t] = "maintenance" ->
              IF coverage_number(e).raises # "" THEN Raises(coverage_number(e).raises)
              ELSE IF github_issues_and_pulls(e).raises # ""
              THEN Raises(github_issues_and_pulls(e).raises)
              ELSE rendered(coverage_number(e).value)
         [] OTHER ->
              IF python_versions(e).raises # "" THEN Raises(python_versions(e).raises)
              ELSE rendered(coverage_number(e).value)

\* which fact of the row raised
raising_fact(t, e) ==
    CASE TabPanes[t] = "release-status" -> "git"
      [] TabPanes[t] = "maintenance" ->
           IF coverage_number(e).raises # "" THEN "coverage_number"
           ELSE "github_issues_and_pulls"
      [] OTHER -> "python_versions"

(***************************************************************************)
(* main (summary.py:944-1004), print_report (1007-1017) and                *)
(* print_html_report (1020-1031)                                           *)
(***************************************************************************)
MaxProjects == 2

OutputFiles == {"None", "-", "output.html"}
\* the output file: the report an earlier run left, or what this run wrote
OLD_FILE == [from |-> "earlier run", rows |-> <<>>]
Written(rows) == [from |-> "this run", rows |-> rows]
\* stderr: the traceback or the message of the exception that ended main,
\* and the "Exception ignored" report of a flush that failed at the end
Quiet == [traceback |-> FALSE, message |-> "", ignored |-> FALSE]
\* exit.code is the status main left until exit.done, the status of the
\* process from then on
Running == [done |-> FALSE, code |-> 0]
\* what print raises when stdout cannot take the text (a pipe its reader
\* closed, a full disk): an OSError, BrokenPipeError being one
PrintErrors == {"OSError"}
\* what print writes to stdout
Printed(what, url, rows) == [what |-> what, url |-> url, rows |-> rows]
NoFailure == [exc |-> "", at |-> "", fact |-> "", project |-> 0]

\* an exception nothing catches: the interpreter prints it and exits with 1;
\* after a KeyboardInterrupt Python 3.8 and later kill the process with
\* SIGINT instead, which its shell reports as status 130, and setup.py
\* allows 3.7 as well
uncaught(exc) ==
    [traceback |-> TRUE, message |-> "",
     codes |-> IF exc = "KeyboardInterrupt" THEN {1, 130} ELSE {1}]

\* a handler that prints the traceback and forgets sys.exit(1)
handled_in_try_no_exit(exc) ==
    IF IsInstance(exc, "GitHubError")
    THEN [traceback |-> FALSE, message |-> "GitHub error", codes |-> {1}]
    ELSE IF IsInstance(exc, "Exception")
    THEN [traceback |-> TRUE, message |-> "", codes |-> {0}]
    ELSE uncaught(exc)

\* how an exception raised inside the try of lines 992-1000 leaves main:
\* sys.exit(message) prints the message and exits with 1
handled_in_try(exc) ==
    IF IsInstance(exc, "GitHubError")
    THEN [traceback |-> FALSE, message |-> "GitHub error", codes |-> {1}]
    ELSE IF IsInstance(exc, "Exception")
    THEN [traceback |-> TRUE, message |-> "", codes |-> {1}]
    ELSE uncaught(exc)

\* the exception ends main; the interpreter has yet to finalize
Leave(how) ==
    /\ stderr' = [traceback |-> how.traceback, message |-> how.message,
                  ignored |-> FALSE]
    /\ \E c \in how.codes : exit' = [done |-> FALSE, code |-> c]
    /\ mainPc' = "finalize"

OthersUnchangedByMain == UNCHANGED <<reifyVars, requestVars, listVars, projVars, callVars>>

\* the lists of at most n projects
RECURSIVE ProjectLists(_)
ProjectLists(n) ==
    IF n = 0 THEN {<<>>}
    ELSE ProjectLists(n - 1)
         \cup {Append(l, e) : l \in {m \in ProjectLists(n - 1) : Len(m) = n - 1},
                              e \in ProjectKinds}

\* lines 990-1004: get_projects makes the generator of the projects, whose
\* working trees are whatever the disk holds, and the report is chosen; the
\* text report warns about -o, and that print is outside the try
Main ==
    /\ mainPc = "main"
    /\ IF args.html
       THEN /\ mainPc' = "enumerate"
            /\ projects' \in ProjectLists(MaxProjects)
            /\ UNCHANGED <<stdout, stderr, exit, failure>>
       ELSE IF args.output_file # "None"
       THEN \/ /\ stdout' = Append(stdout, Printed("warning", <<>>, <<>>))
               /\ mainPc' = "report"
               /\ projects' \in ProjectLists(MaxProjects)
               /\ UNCHANGED <<stderr, exit, failure>>
            \/ \E exc \in PrintErrors :
                  /\ Leave(uncaught(exc))
                  /\ failure' = [exc |-> exc, at |-> "print", fact |-> "", project |-> 0]
                  /\ UNCHANGED <<stdout, projects>>
       ELSE /\ mainPc' = "report"
            /\ projects' \in ProjectLists(MaxProjects)
            /\ UNCHANGED <<stdout, stderr, exit, failure>>
    /\ UNCHANGED <<args, table, row, html, file>>
    /\ OthersUnchangedByMain

\* a print_html_report that opens the output file before it renders
EnumerateOpensFirst ==
    /\ mainPc = "enumerate"
    /\ file' = IF args.output_file # "None" /\ args.output_file # "-"
               THEN Written(<<>>) ELSE file
    /\ \/ /\ mainPc' = "render"
          /\ UNCHANGED <<stderr, exit, failure>>
       \/ /\ Leave(handled_in_try("OSError"))
          /\ failure' = [exc |-> "OSError", at |-> "enumerate", fact |-> "", project |-> 0]
    /\ UNCHANGED <<args, projects, table, row, html, stdout>>
    /\ OthersUnchangedByMain

\* line 1023, list(projects): the generator runs to its end, or git fails
Enumerate ==
    /\ mainPc = "enumerate"
    /\ \/ /\ mainPc' = "render"
          /\ UNCHANGED <<stderr, exit, failure>>
       \/ /\ Leave(handled_in_try("OSError"))
          /\ failure' = [exc |-> "OSError", at |-> "enumerate", fact |-> "", project |-> 0]
    /\ UNCHANGED <<args, projects, table, row, html, file, stdout>>
    /\ OthersUnchangedByMain

\* line 1023, template.render_unicode: the row of one project in one table;
\* the template renders its tables one after the other, each over all projects
RenderRow ==
    /\ mainPc = "render"
    /\ table <= Len(TabPanes)
    /\ row < Len(projects)
    /\ LET e == projects[row + 1]
           r == render_row(table, e)
       IN IF r.raises # ""
          THEN /\ Leave(handled_in_try(r.raises))
               /\ failure' = [exc |-> r.raises, at |-> "render",
                              fact |-> raising_fact(table, e), project |-> row + 1]
               /\ UNCHANGED <<table, row, html>>
          ELSE /\ html' = Append(html, r.value[1])
               /\ IF row + 1 < Len(projects)
                  THEN row' = row + 1 /\ UNCHANGED table
                  ELSE row' = 0 /\ table' = table + 1
               /\ UNCHANGED <<mainPc, stderr, exit, failure>>
    /\ UNCHANGED <<args, projects, file, stdout>>
    /\ OthersUnchangedByMain

\* lines 1027-1031: the document is complete; open the file, or print; where
\* print raises, a part of the document is out and the except clause of main
\* takes the exception
Output ==
    /\ mainPc = "render"
    /\ table > Len(TabPanes) \/ Len(projects) = 0
    /\ IF args.output_file # "None" /\ args.output_file # "-"
       THEN \/ /\ file' = Written(<<>>)
               /\ mainPc' = "write"
               /\ UNCHANGED <<stdout, stderr, exit, failure>>
            \/ /\ Leave(handled_in_try("OSError"))
               /\ failure' = [exc |-> "OSError", at |-> "open", fact |-> "", project |-> 0]
               /\ UNCHANGED <<file, stdout>>
       ELSE \/ /\ stdout' = Append(stdout, Printed("html", <<>>, html))
               /\ mainPc' = "return"
               /\ UNCHANGED <<file, stderr, exit, failure>>
            \/ \E exc \in PrintErrors, k \in 0..Len(html) :
                  /\ stdout' = Append(stdout, Printed("html", <<>>, SubSeq(html, 1, k)))
                  /\ Leave(handled_in_try(exc))
                  /\ failure' = [exc |-> exc, at |-> "print", fact |-> "", project |-> 0]
                  /\ UNCHANGED file
    /\ UNCHANGED <<args, projects, table, row, html>>
    /\ OthersUnchangedByMain

\* lines 1028-1029: f.write(html), and the file is closed; where writing or
\* closing raises (a full disk), the file keeps the part of the document
\* that reached it and the except clause of main takes the OSError
Write ==
    /\ mainPc = "write"
    /\ \/ /\ file' = Written(html)
          /\ mainPc' = "return"
          /\ UNCHANGED <<stderr, exit, failure>>
       \/ /\ \E k \in 0..Len(html) : file' = Written(SubSeq(html, 1, k))
          /\ Leave(handled_in_try("OSError"))
          /\ failure' = [exc |-> "OSError", at |-> "write", fact |-> "", project |-> 0]
    /\ UNCHANGED <<args, projects, table, row, html, stdout>>
    /\ OthersUnchangedByMain

\* lines 1012-1015: what print_report prints under the line of a project
\* before it reads python_versions
details(e, verbose) ==
    IF verbose >= 1
    THEN <<Printed("compare_url", e.url, <<>>)>>
         \o (IF verbose >= 2 THEN <<Printed("working_tree", e.url, <<>>)>> ELSE <<>>)
    ELSE <<>>

\* lines 1016-1017
versions(e, verbose) ==
    IF verbose >= 1
    THEN <<Printed("python_versions", e.url, <<>>), Printed("", e.url, <<>>)>>
    ELSE <<>>

\* lines 1008-1017: the loop of print_report takes the next project from the
\* generator get_projects, where git may fail, and prints it, outside any try:
\* a print that raises ends main with what the prints before it wrote
ReportRow ==
    /\ mainPc = "report"
    /\ row < Len(projects)
    /\ LET e == projects[row + 1]
           verbose == args.verbose[1]
           before == <<Printed("line", e.url, <<>>)>> \o details(e, verbose)
           all == before \o versions(e, verbose)
           versions_raise == verbose >= 1 /\ python_versions(e).raises # ""
           \* the prints the row gets to
           reached == IF versions_raise THEN before ELSE all
       IN \/ /\ Leave(uncaught("OSError"))
             /\ failure' = [exc |-> "OSError", at |-> "enumerate", fact |-> "", project |-> 0]
             /\ UNCHANGED <<row, stdout>>
          \/ IF git_facts(e).raises # ""
             THEN /\ Leave(uncaught(git_facts(e).raises))
                  /\ failure' = [exc |-> git_facts(e).raises, at |-> "report",
                                 fact |-> "git", project |-> row + 1]
                  /\ UNCHANGED <<row, stdout>>
             ELSE \/ \E exc \in PrintErrors, k \in 1..Len(reached) :
                        /\ Leave(uncaught(exc))
                        /\ failure' = [exc |-> exc, at |-> "print", fact |-> "",
                                       project |-> row + 1]
                        /\ stdout' = stdout \o SubSeq(reached, 1, k - 1)
                        /\ UNCHANGED row
                  \/ IF versions_raise
                     THEN /\ Leave(uncaught(python_versions(e).raises))
                          /\ failure' = [exc |-> python_versions(e).raises, at |-> "report",
                                         fact |-> "python_versions", project |-> row + 1]
                          /\ stdout' = stdout \o before
                          /\ UNCHANGED row
                     ELSE /\ row' = row + 1
                          /\ stdout' = stdout \o all
                          /\ UNCHANGED <<mainPc, stderr, exit, failure>>
    /\ UNCHANGED <<args, projects, table, html, file>>
    /\ OthersUnchangedByMain

\* the generator is exhausted, unless git fails on a working tree that
\* follows the last project: print_report has printed every project
ReportDone ==
    /\ mainPc = "report"
    /\ row = Len(projects)
    /\ \/ /\ mainPc' = "return"
          /\ UNCHANGED <<stderr, exit, failure>>
       \/ /\ Leave(uncaught("OSError"))
          /\ failure' = [exc |-> "OSError", at |-> "enumerate", fact |-> "", project |-> 0]
    /\ UNCHANGED <<args, projects, table, row, html, file, stdout>>
    /\ OthersUnchangedByMain

\* lines 1034-1035: main returns, which leaves the status 0
MainReturns ==
    /\ mainPc = "return"
    /\ exit' = [done |-> FALSE, code |-> 0]
    /\ mainPc' = "finalize"
    /\ UNCHANGED <<args, projects, table, row, html, file, stdout, stderr, failure>>
    /\ OthersUnchangedByMain

\* the text stdout was given may still be in its buffer when main ends
stdout_used == Len(stdout) > 0 \/ failure.at = "print"

\* the interpreter ends after main: it flushes stdout, and where that fails
\* it reports the exception it ignores and the status becomes 120, whatever
\* main left; the SIGINT of a KeyboardInterrupt nothing caught comes last
Finalize ==
    /\ mainPc = "finalize"
    /\ \/ /\ exit' = [exit EXCEPT !.done = TRUE]
          /\ UNCHANGED stderr
       \/ /\ stdout_used
          /\ exit' = [done |-> TRUE, code |-> IF exit.code = 130 THEN 130 ELSE 120]
          /\ stderr' = [stderr EXCEPT !.ignored = TRUE]
    /\ mainPc' = "exited"
    /\ UNCHANGED <<args, projects, table, row, html, file, stdout, failure>>
    /\ OthersUnchangedByMain

(***************************************************************************)
(* The functions that only compute a result.  A call is the function's     *)
(* name and its argument; ret is empty until the call has returned or      *)
(* raised.                                                                 *)
(***************************************************************************)
NoCall == [fn |-> "", arg |-> <<>>]

IdleCall ==
    /\ call = NoCall
    /\ ret = Absent

\* fn(arg) is called, and what it returns or raises is kept
Called(fn_name, outcome_of_call) ==
    /\ call.fn = fn_name
    /\ ret = Absent
    /\ ret' = Some(outcome_of_call)
    /\ UNCHANGED <<call, reifyVars, requestVars, listVars, projVars, mainVars>>

(***************************************************************************)
(* to_seconds (summary.py:65-80)                                           *)
(***************************************************************************)
\* a table that takes an hour for sixty seconds
units_hour_is_60 ==
    <<[multiplier |-> 1, suffix |-> <<"s">>],
      [multiplier |-> 1, suffix |-> <<"s", "e", "c">>],
      [multiplier |-> 1, suffix |-> <<"s", "e", "c", "o", "n", "d">>],
      [multiplier |-> 1, suffix |-> <<"s", "e", "c", "o", "n", "d", "s">>],
      [multiplier |-> 60, suffix |-> <<"m">>],
      [multiplier |-> 60, suffix |-> <<"m", "i", "n">>],
      [multiplier |-> 60, suffix |-> <<"m", "i", "n", "u", "t", "e">>],
      [multiplier |-> 60, suffix |-> <<"m", "i", "n", "u", "t", "e", "s">>],
      [multiplier |-> 60, suffix |-> <<"h">>],
      [multiplier |-> 60, suffix |-> <<"h", "o", "u", "r">>],
      [multiplier |-> 60, suffix |-> <<"h", "o", "u", "r", "s">>]>>

\* lines 66-70: the suffixes with their multipliers, in the order of the dict
units ==
    <<[multiplier |-> 1, suffix |-> <<"s">>],
      [multiplier |-> 1, suffix |-> <<"s", "e", "c">>],
      [multiplier |-> 1, suffix |-> <<"s", "e", "c", "o", "n", "d">>],
      [multiplier |-> 1, suffix |-> <<"s", "e", "c", "o", "n", "d", "s">>],
      [multiplier |-> 60, suffix |-> <<"m">>],
      [multiplier |-> 60, suffix |-> <<"m", "i", "n">>],
      [multiplier |-> 60, suffix |-> <<"m", "i", "n", "u", "t", "e">>],
      [multiplier |-> 60, suffix |-> <<"m", "i", "n", "u", "t", "e", "s">>],
      [multiplier |-> 3600, suffix |-> <<"h">>],
      [multiplier |-> 3600, suffix |-> <<"h", "o", "u", "r">>],
      [multiplier |-> 3600, suffix |-> <<"h", "o", "u", "r", "s">>]>>

\* str.lower() on the letters that unit spellings are made of
lower_char(c) ==
    CASE c = "D" -> "d" [] c = "E" -> "e" [] c = "H" -> "h" [] c = "I" -> "i"
      [] c = "M" -> "m" [] c = "N" -> "n" [] c = "O" -> "o" [] c = "R" -> "r"
      [] c = "S" -> "s" [] c = "T" -> "t" [] c = "U" -> "u" [] c = "C" -> "c"
      [] OTHER -> c
lower(s) == [i \in 1..Len(s) |-> lower_char(s[i])]

\* removing the spaces and folding the case as well
despace_lower(value) == lower(SelectSeq(value, LAMBDA c : c # " "))

\* line 71: value.replace(' ', '')
despace(value) == SelectSeq(value, LAMBDA c : c # " ")

\* a parser that gives up quietly
bad_time_returns_zero(value) == Value(0)

\* line 80: raise ValueError('bad time: %s' % value)
bad_time(value) == Raises("ValueError")

to_seconds(value) ==
    LET s == despace(value)
        prefix(i) == SubSeq(s, 1, Len(s) - Len(units[i].suffix))
        \* lines 74-78: the suffixes that end s after a number
        found == {i \in 1..Len(units) :
                     endswith(s, units[i].suffix) /\ isdigit(prefix(i))}
    IN IF isdigit(s)
       THEN IF int_error(s) # "" THEN Raises(int_error(s)) ELSE Value(int(s))
       ELSE IF found # {}
       THEN LET i == CHOOSE j \in found : \A k \in found : j <= k
            IN IF int_error(prefix(i)) # "" THEN Raises(int_error(prefix(i)))
               ELSE Value(int(prefix(i)) * units[i].multiplier)
       ELSE bad_time(value)

ToSeconds == Called("to_seconds", to_seconds(call.arg))

\* the configuration values tried: a number, a unit or another word, the two
\* in either order, with and without spaces
Numbers == {<<>>, <<"1">>, <<"5">>, <<"3", "0">>, <<"0", "7">>, <<"²">>,
            <<"U+0663">>, <<"U+FF15", "0">>, <<"U+2460">>}
\* numbers of as many digits as int() converts, and of one more
LongNumbers == {Repeat("0", int_max_str_digits), Repeat("0", int_max_str_digits + 1)}
Spaces == {<<>>, <<" ">>}
UnitSpellings == {units[i].suffix : i \in 1..Len(units)}
OtherWords ==
    {<<>>, <<"u", "h", "h">>,
     <<"x">>,
     <<"m", "s">>,
     <<"h", "s">>,
     <<"M">>,
     <<"M", "i", "n">>,
     <<"M", "I", "N", "U", "T", "E", "S">>,
     <<"H">>,
     <<"H", "o", "u", "r", "s">>,
     <<"H", "O", "U", "R", "S">>,
     <<"S">>,
     <<"S", "e", "c">>,
     <<"m", "i", " ", "n">>,
     <<"h", "5">>,
     <<"-">>}
Durations ==
    {a \o n \o b \o w : a \in Spaces, n \in Numbers, b \in Spaces,
                        w \in UnitSpellings \cup OtherWords}
    \cup {w \o n : n \in Numbers, w \in UnitSpellings}
    \cup {n \o w : n \in LongNumbers, w \in UnitSpellings \cup {<<>>}}
    \cup {<<"3", " ", "0">>, <<"5", "m", "5", "m">>, <<"5", "5", " ", "m", "i", "n", " ">>}

InitToSeconds ==
    /\ call \in [fn : {"to_seconds"}, arg : Durations]
    /\ ret = Absent

(***************************************************************************)
(* normalize_github_url (summary.py:217-228) applied to a URL, and then to *)
(* what it returned: ret holds the results of the applications so far.     *)
(***************************************************************************)
NormalizeGithubUrl ==
    /\ call.fn = "normalize_github_url"
    /\ Len(ret) < 2
    /\ ret' = Append(ret, normalize_github_url(IF ret = <<>> THEN call.arg
                                               ELSE ret[Len(ret)]))
    /\ UNCHANGED <<call, reifyVars, requestVars, listVars, projVars, mainVars>>

\* the URLs tried: None, the empty string, and every beginning followed by
\* every ending
UrlHeads ==
    {GIT_PREFIX, SSH_PREFIX, HTTPS_PREFIX,
     <<"h", "t", "t", "p", "s", ":", "/", "/", "e", "x", "a", "m", "p", "l", "e", ".", "c", "o", "m", "/">>,
     <<"g", "i", "t", "@", "e", "x", "a", "m", "p", "l", "e", ".", "c", "o", "m", ":">>,
     <<"h", "t", "t", "p", ":", "/", "/", "g", "i", "t", "h", "u", "b", ".", "c", "o", "m", "/">>,
     <<"f", "r", "i", "d", "g", "e", ":", "g", "i", "t", "/">>,
     <<"h", "t", "t", "p", "s", ":", "/", "/", "g", "i", "t", "h", "u", "b", ".", "c", "o", "m">>,
     <<"g", "i", "t", ":", "/", "/", "g", "i", "t", "l", "a", "b", ".", "c", "o", "m", "/">>}
UrlTails ==
    {<<>>,
     <<"o", "/", "a">>,
     <<"o", "/", "a", ".", "g", "i", "t">>,
     <<"o", "/", "a", ".", "g", "i", "t", ".", "g", "i", "t">>,
     <<".", "g", "i", "t">>,
     <<"o", "/", "a", ".", "g", "i", "t", "/">>,
     <<"o", "/", "a", ".", "g", "i", "t", "h", "u", "b">>}
Urls == {None, <<>>} \cup {h \o t : h \in UrlHeads, t \in UrlTails}

InitNormalize ==
    /\ call \in [fn : {"normalize_github_url"}, arg : Urls]
    /\ ret = <<>>

(***************************************************************************)
(* The issue facts of a Project (summary.py:491-529).  An issue of the     *)
(* listing that GitHub returns is its number, whether it has the           *)
(* pull_request key, and its labels.                                       *)
(***************************************************************************)
MaxIssues == 3

\* Project.github_issues_and_pulls: nothing is requested off GitHub
issues_and_pulls(e) == IF ~is_on_github(e) THEN <<>> ELSE e.listing

\* Project.github_issues
github_issues(all) == SelectSeq(all, LAMBDA issue : ~issue.pull_request)

\* the test of github_issues copied as it is
github_pulls_same_test(all) == SelectSeq(all, LAMBDA issue : ~issue.pull_request)

\* Project.github_pulls
github_pulls(all) == SelectSeq(all, LAMBDA issue : issue.pull_request)

\* sum(1 for issue in issues if not issue['labels'])
unlabeled_count(issues) == Len(SelectSeq(issues, LAMBDA issue : issue.labels = <<>>))

\* the issue facts that a row of the report reads
issue_facts(e) ==
    LET all == issues_and_pulls(e) IN
    [github_issues_and_pulls |-> all,
     github_issues |-> github_issues(all),
     github_pulls |-> github_pulls(all),
     open_issues_count |-> Len(github_issues(all)),
     unlabeled_open_issues_count |-> unlabeled_count(github_issues(all)),
     open_pulls_count |-> Len(github_pulls(all)),
     unlabeled_open_pulls_count |-> unlabeled_count(github_pulls(all))]

IssueFacts == Called("issue_facts", Value(issue_facts(call.arg)))

\* the listings tried: up to MaxIssues issues, numbered as GitHub lists them
Listings ==
    UNION {[1..n -> [pull_request : BOOLEAN, labels : {<<>>, <<"bug">>}]] :
               n \in 0..MaxIssues}
Numbered(listing) ==
    [i \in 1..Len(listing) |->
        [number |-> i, pull_request |-> listing[i].pull_request,
         labels |-> listing[i].labels]]

InitIssueFacts ==
    /\ call \in [fn : {"issue_facts"},
                 arg : {[url |-> u, listing |-> Numbered(l)] :
                           u \in {URL_GITHUB, URL_ELSEWHERE}, l \in Listings}]
    /\ ret = Absent

(***************************************************************************)
(* The CI and coverage facts of a Project (summary.py:330-485) and the     *)
(* status cells that the template makes of them (summary.py:750-771).      *)
(* Here a project's surroundings also have its working tree and branch,    *)
(* whether appveyor.yml exists, and the appveyor-account, jenkins-url and  *)
(* jenkins-jobs of the configuration.                                      *)
(***************************************************************************)
\* Project.uses_appveyor (summary.py:336-340)
uses_appveyor(e) ==
    IF ~is_on_github(e) \/ e.appveyor_account = <<>> THEN FALSE ELSE e.appveyor_yml

\* Project.uses_jenkins (summary.py:342-344)
uses_jenkins(e) == e.jenkins_url # <<>>

\* Project.owner, Project.name, Project.jenkins_job
project_owner(e) == IF is_on_github(e) THEN get_project_owner(e.url) ELSE None
project_name(e) == IF e.url # <<>> THEN get_project_name(e.url) ELSE basename(e.working_tree)
jenkins_job(e) ==
    IF basename(e.working_tree) = <<"w", "o", "r", "k", "s", "p", "a", "c", "e">>
    THEN basename(dirname(e.working_tree))
    ELSE basename(e.working_tree)

\* a property that has lost its guard
url_if_always(uses, url) == url

\* "if not self.uses_...: return None", then the URL
url_if(uses, url) == IF ~uses THEN None ELSE url

\* the URL properties of lines 395-445 and the methods of lines 471-485,
\* the latter for each job of config.jenkins_jobs
status_urls(e) ==
    LET owner_name == project_owner(e) \o <<"/">> \o project_name(e)
        job_url(job) == e.jenkins_url \o <<"/", "j", "o", "b", "/">> \o jenkins_job(e) \o job
    IN [travis_image_url |->
            url_if(uses_travis(e), <<"h", "t", "t", "p", "s", ":", "/", "/", "a", "p", "i", ".", "t", "r", "a", "v", "i", "s", "-", "c", "i", ".", "o", "r", "g", "/">> \o owner_name \o <<".", "s", "v", "g", "?", "b", "r", "a", "n", "c", "h", "=">> \o e.branch),
        travis_url |->
            url_if(uses_travis(e), <<"h", "t", "t", "p", "s", ":", "/", "/", "t", "r", "a", "v", "i", "s", "-", "c", "i", ".", "o", "r", "g", "/">> \o owner_name),
        appveyor_image_url |->
            url_if(uses_appveyor(e), <<"h", "t", "t", "p", "s", ":", "/", "/", "c", "i", ".", "a", "p", "p", "v", "e", "y", "o", "r", ".", "c", "o", "m", "/", "a", "p", "i", "/", "p", "r", "o", "j", "e", "c", "t", "s", "/", "s", "t", "a", "t", "u", "s", "/", "g", "i", "t", "h", "u", "b", "/">> \o owner_name \o <<"?", "b", "r", "a", "n", "c", "h", "=">> \o e.branch \o <<"&", "s", "v", "g", "=", "t", "r", "u", "e">>),
        appveyor_url |->
            url_if(uses_appveyor(e), <<"h", "t", "t", "p", "s", ":", "/", "/", "c", "i", ".", "a", "p", "p", "v", "e", "y", "o", "r", ".", "c", "o", "m", "/", "p", "r", "o", "j", "e", "c", "t", "/">> \o e.appveyor_account \o <<"/">> \o project_name(e) \o <<"/", "b", "r", "a", "n", "c", "h", "/">> \o e.branch),
        coveralls_image_url |->
            url_if(uses_travis(e), <<"h", "t", "t", "p", "s", ":", "/", "/", "c", "o", "v", "e", "r", "a", "l", "l", "s", ".", "i", "o", "/", "r", "e", "p", "o", "s", "/">> \o owner_name \o <<"/", "b", "a", "d", "g", "e", ".", "s", "v", "g", "?", "b", "r", "a", "n", "c", "h", "=">> \o e.branch),
        coveralls_url |->
            url_if(uses_travis(e), <<"h", "t", "t", "p", "s", ":", "/", "/", "c", "o", "v", "e", "r", "a", "l", "l", "s", ".", "i", "o", "/", "r", "/">> \o owner_name \o <<"?", "b", "r", "a", "n", "c", "h", "=">> \o e.branch),
        jenkins_image_url |->
            [j \in 1..Len(e.jenkins_jobs) |->
                url_if(uses_jenkins(e), job_url(e.jenkins_jobs[j]) \o <<"/", "b", "a", "d", "g", "e", "/", "i", "c", "o", "n">>)],
        jenkins_url |->
            [j \in 1..Len(e.jenkins_jobs) |->
                url_if(uses_jenkins(e), job_url(e.jenkins_jobs[j]) \o <<"/">>)]]

\* Configuration.jenkins_jobs (summary.py:140-146): no jobs without a jenkins-url
jenkins_jobs(e) == IF e.jenkins_url # <<>> THEN e.jenkins_jobs ELSE <<>>

\* a cell of the template: a link around the status image, or "-"
Link(href, src, coverage) == [text |-> "a", href |-> href, src |-> src, coverage |-> coverage]
Dash == [text |-> "-", href |-> None, src |-> None, coverage |-> Absent]

\* lines 750-771: the build, Jenkins, Appveyor and Coveralls cells of a row;
\* the Coveralls cell reads project.coverage(), which reads coverage_number
status_cells(e) ==
    LET urls == status_urls(e)
        truthy(url) == url # None /\ url # <<>>
    IN IF truthy(urls.coveralls_url) /\ coverage_number(e).raises # ""
       THEN Raises(coverage_number(e).raises)
       ELSE Value(
        [travis |-> IF truthy(urls.travis_url)
                    THEN Link(urls.travis_url, urls.travis_image_url, Absent)
                    ELSE Dash,
         jenkins |-> [j \in 1..Len(jenkins_jobs(e)) |->
                        IF uses_jenkins(e)
                        THEN Link(urls.jenkins_url[j], urls.jenkins_image_url[j], Absent)
                        ELSE Dash],
         appveyor |-> IF truthy(urls.appveyor_url)
                      THEN Link(urls.appveyor_url, urls.appveyor_image_url, Absent)
                      ELSE Dash,
         coveralls |-> IF truthy(urls.coveralls_url)
                       THEN Link(urls.coveralls_url, urls.coveralls_image_url,
                                 coverage_number(e).value)
                       ELSE Dash])

\* a row is rendered: the facts it read and the cells made of them
RenderStatus ==
    Called("status_cells",
           [urls |-> status_urls(call.arg),
            coverage_number |-> coverage_number(call.arg),
            cells |-> status_cells(call.arg)])

\* the projects tried
BadgeReplies ==
    {Reply(302, Some(BADGE_87)), Reply(302, Some(BADGE_UNKNOWN)),
     Reply(302, Some(COVERALLS_PREFIX \o <<"0">> \o COVERALLS_SUFFIX)),
     Reply(302, Some(COVERALLS_PREFIX \o <<"1", "0", "0">> \o COVERALLS_SUFFIX)),
     Reply(302, Some(URL_ELSEWHERE)), Reply(302, Absent),
     Reply(200, Some(BADGE_87)), ReplyRaises("ConnectionError"),
     Reply(302, Some(BADGE_SUPERSCRIPT)), Reply(302, Some(BADGE_FULLWIDTH_87)),
     Reply(302, Some(COVERALLS_PREFIX \o <<"U+2074">> \o COVERALLS_SUFFIX)),
     Reply(302, Some(COVERALLS_PREFIX \o Repeat("0", int_max_str_digits + 1)
                                     \o COVERALLS_SUFFIX))}
StatusProjects ==
    [url : {URL_GITHUB, URL_ELSEWHERE, <<>>},
     working_tree : {DIR_A, DIR_A \o <<"/">> \o <<"w", "o", "r", "k", "s", "p", "a", "c", "e">>,
                     DIR_A \o <<"/", "/">> \o <<"w", "o", "r", "k", "s", "p", "a", "c", "e">>},
     branch : {<<"m", "a", "s", "t", "e", "r">>},
     travis_yml : BOOLEAN,
     appveyor_yml : BOOLEAN,
     appveyor_account : {<<>>, <<"a", "c", "c", "t">>},
     jenkins_url : {<<>>, <<"h", "t", "t", "p", "s", ":", "/", "/", "c", "i", ".", "e", "x", "a", "m", "p", "l", "e", ".", "c", "o", "m">>},
     jenkins_jobs : {<<<<>>, <<"-", "l", "i", "n", "u", "x">>>>},
     coveralls : BadgeReplies]

InitStatus ==
    /\ call \in [fn : {"status_cells"}, arg : StatusProjects]
    /\ ret = Absent

(***************************************************************************)
(* Stylesheet generation of the Column/Page framework.  summary.py has no  *)
(* Column or Page class (its template writes the :nth-child rules of lines *)
(* 621-625 by hand), so the selector of a column is modelled from the      *)
(* specification: a page is the CSS classes of its columns in order, ""    *)
(* for a column without a class.                                           *)
(***************************************************************************)
MaxColumns == 4

ByClass(css_class) == [by |-> ".", css_class |-> css_class, nth_child |-> 0]
ByPosition(n) == [by |-> ":nth-child", css_class |-> "", nth_child |-> n]

\* a collision test that looks at the columns before this one only
discrim_looks_back(columns, n) ==
    IF columns[n] # "" /\ ~\E k \in 1..(n - 1) : columns[k] = columns[n]
    THEN ByClass(columns[n])
    ELSE ByPosition(n)

\* the selector of column n of the page, counted from 1: its class when it
\* has one that no other column of the page has, else its position
discrim(columns, n) ==
    IF columns[n] # "" /\ ~\E k \in 1..Len(columns) : k # n /\ columns[k] = columns[n]
    THEN ByClass(columns[n])
    ELSE ByPosition(n)

\* the selectors of the rules of a page, one for each column
Stylesheet ==
    Called("stylesheet", [n \in 1..Len(call.arg) |-> discrim(call.arg, n)])

\* the pages tried: up to MaxColumns columns with one of two classes or none
ColumnLists == UNION {[1..n -> {"", "frog", "bork"}] : n \in 1..MaxColumns}

InitStylesheet ==
    /\ call \in [fn : {"stylesheet"}, arg : ColumnLists]
    /\ ret = Absent

(***************************************************************************)
(* The text of a status badge.  src/summary.py has no badge text           *)
(* extraction (its report shows the badge images themselves), so this part *)
(* is modelled from the specification of parse_badge_text.  An SVG         *)
(* document is either not well-formed or the sequence of its elements with *)
(* text content, in document order: the tag ("text", "tspan" for a tspan   *)
(* nested in a text, or another tag), whether the text element has a       *)
(* fill-opacity attribute (the shadow copy), and the text content.         *)
(***************************************************************************)
MaxElements == 3

BUILD == <<"b", "u", "i", "l", "d">>
PASSING == <<"p", "a", "s", "s", "i", "n", "g">>

\* reading every text element as crisp
is_shadow_never(element) == FALSE

\* the element is the shadow copy of a label
is_shadow(element) == element.fill_opacity

\* the element's text content is collected
is_badge_text(element, excluded_words) ==
    /\ element.tag \in {"text", "tspan"}
    /\ ~is_shadow(element)
    /\ element.content \notin excluded_words

\* ' '.join(words)
RECURSIVE join(_)
join(words) ==
    IF Len(words) = 0 THEN <<>>
    ELSE IF Len(words) = 1 THEN words[1]
    ELSE words[1] \o <<" ">> \o join(Tail(words))

\* the contents of a sequence of elements
contents(elements) == [i \in 1..Len(elements) |-> elements[i].content]

parse_badge_text(svg_body, excluded_words) ==
    IF ~svg_body.wellformed THEN <<>>
    ELSE join(contents(SelectSeq(svg_body.elements,
                                 LAMBDA element : is_badge_text(element, excluded_words))))

ParseBadgeText ==
    Called("parse_badge_text",
           Value(parse_badge_text(call.arg.svg_body, call.arg.excluded_words)))

\* the documents tried: malformed input, and up to MaxElements elements
Elements == [tag : {"text", "tspan", "title"}, fill_opacity : BOOLEAN,
             content : {BUILD, PASSING}]
Malformed == [wellformed |-> FALSE, elements |-> <<>>]
SvgBodies ==
    {Malformed} \cup
    [wellformed : {TRUE}, elements : UNION {[1..n -> Elements] : n \in 0..MaxElements}]

InitBadgeText ==
    /\ call \in [fn : {"parse_badge_text"},
                 arg : [svg_body : SvgBodies, excluded_words : {{}, {BUILD}}]]
    /\ ret = Absent

(***************************************************************************)
(* The header-render hook of a page.  src/summary.py has no Page class:    *)
(* its template writes the hook of lines 848-863 by hand for its fixed     *)
(* columns, so Page.js_render_header is modelled from the specification.   *)
(* A page is the text alignment of its columns in order, "" for a column   *)
(* without one; the hook is the test it makes on the 0-based column index. *)
(***************************************************************************)
NoHook == [hook |-> FALSE, test |-> "", indices |-> <<>>]
Hook(test, indices) == [hook |-> TRUE, test |-> test, indices |-> indices]

\* counting the columns from 1
right_aligned_from_one(aligns) ==
    SelectSeq([i \in 1..Len(aligns) |-> i], LAMBDA i : aligns[i] = "right")

\* the 0-based indices of the right-aligned columns, ascending
right_aligned(aligns) ==
    [j \in 1..Len(right_aligned_from_one(aligns)) |-> right_aligned_from_one(aligns)[j] - 1]

\* the indices are those of the last columns of a table of n columns
are_last_columns(indices, n) ==
    \A j \in 1..Len(indices) : indices[j] = n - Len(indices) + j - 1

js_render_header(aligns) ==
    LET indices == right_aligned(aligns) IN
    IF Len(indices) = 0 \/ Len(indices) = Len(aligns) THEN NoHook
    ELSE IF are_last_columns(indices, Len(aligns)) THEN Hook(">=", <<indices[1]>>)
    ELSE Hook("==", indices)

JsRenderHeader == Called("js_render_header", Value(js_render_header(call.arg)))

\* the pages tried: up to MaxColumns columns, right-aligned, centered or neither
AlignLists == UNION {[1..n -> {"", "right", "center"}] : n \in 0..MaxColumns}

InitRenderHeader ==
    /\ call \in [fn : {"js_render_header"}, arg : AlignLists]
    /\ ret = Absent

(***************************************************************************)
(* The facts of a Project that depend on its URL (summary.py:322-393,      *)
(* 395-445, 518-535).  Here a project's surroundings have what             *)
(* get_repo_url returns for its working tree, a string or None, in place   *)
(* of the URL.                                                             *)
(***************************************************************************)
\* self.url.startswith(prefix): None has no startswith
url_startswith(url, prefix) ==
    IF url = None THEN Raises("AttributeError") ELSE Value(startswith(url, prefix))

\* Project.url (summary.py:322-324) put into the surroundings
with_url(e) ==
    [x \in DOMAIN e \cup {"url"} |->
        IF x = "url" THEN normalize_github_url(e.origin) ELSE e[x]]

\* Project.compare_url, Project.issues_url, Project.pulls_url
compare_url(e) ==
    IF ~is_on_github(e) THEN None
    ELSE e.url \o <<"/", "c", "o", "m", "p", "a", "r", "e", "/">> \o e.last_tag \o <<".", ".", ".">> \o e.branch
issues_url(e) == IF ~is_on_github(e) THEN None ELSE e.url \o <<"/", "i", "s", "s", "u", "e", "s">>
pulls_url(e) == IF ~is_on_github(e) THEN None ELSE e.url \o <<"/", "p", "u", "l", "l", "s">>

\* reading each fact of the project: every property that tests is_on_github,
\* directly or through uses_travis and uses_appveyor, raises what it raises
url_facts(e) ==
    LET on_github == url_startswith(e.url, HTTPS_PREFIX)
        name_value == IF e.url # None /\ e.url # <<>>
                      THEN get_project_name(e.url) ELSE basename(e.working_tree)
    IN IF on_github.raises # ""
       THEN [url |-> Value(e.url), is_on_github |-> on_github, name |-> Value(name_value),
             owner |-> on_github, compare_url |-> on_github,
             issues_url |-> on_github, pulls_url |-> on_github,
             travis_url |-> on_github, travis_image_url |-> on_github,
             appveyor_url |-> on_github, appveyor_image_url |-> on_github,
             coveralls_url |-> on_github, coveralls_image_url |-> on_github]
       ELSE [url |-> Value(e.url), is_on_github |-> on_github, name |-> Value(name_value),
             owner |-> Value(project_owner(e)), compare_url |-> Value(compare_url(e)),
             issues_url |-> Value(issues_url(e)), pulls_url |-> Value(pulls_url(e)),
             travis_url |-> Value(status_urls(e).travis_url),
             travis_image_url |-> Value(status_urls(e).travis_image_url),
             appveyor_url |-> Value(status_urls(e).appveyor_url),
             appveyor_image_url |-> Value(status_urls(e).appveyor_image_url),
             coveralls_url |-> Value(status_urls(e).coveralls_url),
             coveralls_image_url |-> Value(status_urls(e).coveralls_image_url)]

UrlFacts == Called("url_facts", url_facts(with_url(call.arg)))

\* the projects tried: no answer from get_repo_url, no remote, GitHub, elsewhere
Origins == {None, <<>>, ORIGIN, SSH_URL_A, URL_GITHUB, URL_ELSEWHERE}
UrlProjects ==
    [origin : Origins,
     working_tree : {DIR_A},
     branch : {<<"m", "a", "s", "t", "e", "r">>},
     last_tag : {<<"1", ".", "0">>},
     travis_yml : BOOLEAN,
     appveyor_yml : BOOLEAN,
     appveyor_account : {<<>>, <<"a", "c", "c", "t">>},
     jenkins_url : {<<>>, <<"h", "t", "t", "p", "s", ":", "/", "/", "c", "i", ".", "e", "x", "a", "m", "p", "l", "e", ".", "c", "o", "m">>},
     jenkins_jobs : {<<<<>>>>}]

InitUrlFacts ==
    /\ call \in [fn : {"url_facts"}, arg : UrlProjects]
    /\ ret = Absent

(***************************************************************************)
(* main before the report (summary.py:944-989): the command line is        *)
(* parsed, the log level set, the HTTP cache installed and the options     *)
(* --fetch, --pull and --skip-branches put into the configuration read     *)
(* from project-summary.cfg.  The command line is, for each flag, whether  *)
(* it is given, and the number of -v.                                      *)
(***************************************************************************)
MaxVerbose == 3

\* argparse action='store_true': True when the flag is given, else the
\* default, which is False
store_true(given) == Some(given)

\* argparse action='count': the number of times the flag is given, None when
\* it is not given at all
count(n) == IF n = 0 THEN Absent ELSE Some(n)

\* lines 952-969: parser.parse_args()
parse_args(argv) ==
    [verbose |-> count(argv.verbose),
     skip_branches |-> store_true(argv.skip_branches),
     fetch |-> store_true(argv.fetch),
     pull |-> store_true(argv.pull),
     http_cache |-> argv.http_cache,
     cache_duration |-> argv.cache_duration]

\* lines 972-974: the level of the logger; None >= 3 is a TypeError
log_level(verbose) ==
    IF verbose = Absent THEN Raises("TypeError")
    ELSE Value(IF verbose[1] >= 3 THEN "DEBUG"
               ELSE IF verbose[1] >= 1 THEN "INFO" ELSE "ERROR")

\* lines 976-982: the cache expires after to_seconds(args.cache_duration)
install_cache(parsed) ==
    IF parsed.http_cache THEN to_seconds(parsed.cache_duration) ELSE Value(0)

\* lines 984-989: "if args.x is not None: config.x = args.x"
override(value, arg) == IF arg # Absent THEN arg[1] ELSE value

\* lines 945-989: the configuration that main hands to get_projects, or the
\* exception that ends main before
main_options(cfg, argv) ==
    LET parsed == parse_args(argv) IN
    IF log_level(parsed.verbose).raises # ""
    THEN Raises(log_level(parsed.verbose).raises)
    ELSE IF install_cache(parsed).raises # ""
    THEN Raises(install_cache(parsed).raises)
    ELSE Value([fetch |-> override(cfg.fetch, parsed.fetch),
                pull |-> override(cfg.pull, parsed.pull),
                skip_branches |-> override(cfg.skip_branches, parsed.skip_branches)])

MainOptions == Called("main_options", main_options(call.arg.cfg, call.arg.argv))

\* the configuration files and command lines tried
ConfigFiles == [fetch : BOOLEAN, pull : BOOLEAN, skip_branches : BOOLEAN]
CommandLines ==
    [verbose : 0..MaxVerbose, skip_branches : BOOLEAN, fetch : BOOLEAN, pull : BOOLEAN,
     http_cache : BOOLEAN, cache_duration : {<<"1", "5", "m">>, <<"s", "o", "o", "n">>, <<"U+0663", "m">>,
                       Repeat("0", int_max_str_digits + 1)}]

InitMainOptions ==
    /\ call \in [fn : {"main_options"}, arg : [cfg : ConfigFiles, argv : CommandLines]]
    /\ ret = Absent

\* args.verbose: None without -v, the number of -v otherwise
Verbosities == {count(0), count(1), count(2)}
\* line 958: default='.httpcache', which is true: the cache is installed
\* unless --no-http-cache is given
DEFAULT_HTTP_CACHE == TRUE
\* line 963: default='15m'
DEFAULT_CACHE_DURATION == <<"1", "5", "m">>
CacheDurations == {DEFAULT_CACHE_DURATION, <<"s", "o", "o", "n">>}

\* lines 971-989: the logger is set up, the cache installed and the options
\* are put over the configuration, all outside the try: what this raises
\* nothing catches
Configure ==
    /\ mainPc = "configure"
    /\ LET raises == IF log_level(args.verbose).raises # ""
                     THEN log_level(args.verbose).raises
                     ELSE install_cache(args).raises
       IN IF raises # ""
          THEN /\ Leave(uncaught(raises))
               /\ failure' = [exc |-> raises, at |-> "configure", fact |-> "", project |-> 0]
          ELSE /\ mainPc' = "main"
               /\ UNCHANGED <<stderr, exit, failure>>
    /\ UNCHANGED <<args, projects, table, row, html, file, stdout>>
    /\ OthersUnchangedByMain

InitMain ==
    /\ args \in [html : BOOLEAN, output_file : OutputFiles, verbose : Verbosities,
                  http_cache : {DEFAULT_HTTP_CACHE}, cache_duration : CacheDurations]
    /\ projects = <<>>
    /\ mainPc = "configure"
    /\ table = 1
    /\ row = 0
    /\ html = <<>>
    /\ file = OLD_FILE
    /\ stdout = <<>>
    /\ stderr = Quiet
    /\ exit = Running
    /\ failure = NoFailure

IdleMain ==
    /\ args = [html |-> FALSE, output_file |-> "None", verbose |-> Some(1),
               http_cache |-> DEFAULT_HTTP_CACHE,
               cache_duration |-> DEFAULT_CACHE_DURATION]
    /\ projects = <<>>
    /\ mainPc = "configure"
    /\ table = 1
    /\ row = 0
    /\ html = <<>>
    /\ file = OLD_FILE
    /\ stdout = <<>>
    /\ stderr = Quiet
    /\ exit = Running
    /\ failure = NoFailure

NextMain ==
    \/ Configure
    \/ Main
    \/ Enumerate
    \/ RenderRow
    \/ Output
    \/ Write
    \/ ReportRow
    \/ ReportDone
    \/ MainReturns
    \/ Finalize

(***************************************************************************)
(* Specifications                                                          *)
(***************************************************************************)
InitSpecReify == InitReify /\ IdleRequest /\ IdleList /\ IdleProjects /\ IdleMain /\ IdleCall
SpecReify == InitSpecReify /\ [][NextReify]_vars

InitSpecRequest == IdleReify /\ InitRequest /\ IdleList /\ IdleProjects /\ IdleMain /\ IdleCall
SpecRequest == InitSpecRequest /\ [][NextRequest]_vars

InitSpecList == IdleReify /\ IdleRequest /\ InitList /\ IdleProjects /\ IdleMain /\ IdleCall
SpecList == InitSpecList /\ [][NextList]_vars
\* github_request_list runs to its end: no step of it waits for anything
SpecListFair == InitSpecList /\ [][NextList]_vars /\ WF_vars(NextList)

InitSpecProjects == IdleReify /\ IdleRequest /\ IdleList /\ InitProjects /\ IdleMain /\ IdleCall
SpecProjects == InitSpecProjects /\ [][NextProjects]_vars

InitSpecMain == IdleReify /\ IdleRequest /\ IdleList /\ IdleProjects /\ InitMain /\ IdleCall
SpecMain == InitSpecMain /\ [][NextMain]_vars

InitSpecToSeconds ==
    IdleReify /\ IdleRequest /\ IdleList /\ IdleProjects /\ IdleMain /\ InitToSeconds
SpecToSeconds == InitSpecToSeconds /\ [][ToSeconds]_vars

InitSpecNormalize ==
    IdleReify /\ IdleRequest /\ IdleList /\ IdleProjects /\ IdleMain /\ InitNormalize
SpecNormalize == InitSpecNormalize /\ [][NormalizeGithubUrl]_vars

InitSpecIssueFacts ==
    IdleReify /\ IdleRequest /\ IdleList /\ IdleProjects /\ IdleMain /\ InitIssueFacts
SpecIssueFacts == InitSpecIssueFacts /\ [][IssueFacts]_vars

InitSpecStatus ==
    IdleReify /\ IdleRequest /\ IdleList /\ IdleProjects /\ IdleMain /\ InitStatus
SpecStatus == InitSpecStatus /\ [][RenderStatus]_vars

InitSpecStylesheet ==
    IdleReify /\ IdleRequest /\ IdleList /\ IdleProjects /\ IdleMain /\ InitStylesheet
SpecStylesheet == InitSpecStylesheet /\ [][Stylesheet]_vars

InitSpecBadgeText ==
    IdleReify /\ IdleRequest /\ IdleList /\ IdleProjects /\ IdleMain /\ InitBadgeText
SpecBadgeText == InitSpecBadgeText /\ [][ParseBadgeText]_vars

InitSpecRenderHeader ==
    IdleReify /\ IdleRequest /\ IdleList /\ IdleProjects /\ IdleMain /\ InitRenderHeader
SpecRenderHeader == InitSpecRenderHeader /\ [][JsRenderHeader]_vars

InitSpecUrlFacts ==
    IdleReify /\ IdleRequest /\ IdleList /\ IdleProjects /\ IdleMain /\ InitUrlFacts
SpecUrlFacts == InitSpecUrlFacts /\ [][UrlFacts]_vars

InitSpecMainOptions ==
    IdleReify /\ IdleRequest /\ IdleList /\ IdleProjects /\ IdleMain /\ InitMainOptions
SpecMainOptions == InitSpecMainOptions /\ [][MainOptions]_vars

\* C1: reads of a reified attribute made in a row, starting from an empty
\* cache, run the underlying computation exactly once, and every one of them
\* returns the value the first read computed.
C1_ReifyComputesOnce ==
    \A o \in Objs :
        run[o].reads >= 1 =>
            /\ run[o].comps = 1
            /\ got[o] = run[o].first
            /\ dict[o] = run[o].first

\* three reads in a row, with the outside world changed after the first
C1_Witness ==
    \E o \in Objs :
        /\ run[o].reads = 3
        /\ Some(source[o]) # run[o].first
        /\ got[o] = run[o].first

\* the request carries a usable error body: JSON with a "message"
HasMessage(r) == r.body.kind = "object" /\ r.body.message # Absent

\* X-RateLimit-Reset carries a number T in decimal digits
HasResetTime(r) ==
    /\ r.reset # Absent
    /\ Len(r.reset[1]) > 0
    /\ \A i \in 1..Len(r.reset[1]) : r.reset[1][i] \in Digits

\* T is a time that the interpreter and the platform can tell: int() reads
\* it and time.localtime converts it
IsTimestamp(r, zone) ==
    /\ HasResetTime(r)
    /\ int_error(r.reset[1]) = ""
    /\ float_error(r.reset[1]) = ""
    /\ localtime_error(r.reset[1], zone) = ""

\* T has no more decimal digits than a float keeps (sys.float_info.dig)
IsExactFloat(r) == Len(magnitude(r.reset[1])) <= 15

\* the m with 60(m-1) < T - t <= 60m, which is ceil((T - t) / 60), for the
\* T that s spells, as the message spells it
exact_minutes(s, t) ==
    LET wait == big_minus(big_int(s), big(t))
        d == big_divmod(wait.mag, 60)
    IN str(IF wait.neg THEN Big(TRUE, d.q)
           ELSE Big(FALSE, IF d.r > 0 THEN big_sum(d.q, <<1>>) ELSE d.q))

\* C3: a 403 response whose X-RateLimit-Remaining is "0" and whose
\* X-RateLimit-Reset is T raises GitHubRateLimitError, a GitHubError, and the
\* minutes m in its message are ceil((T - now) / 60): 60(m-1) < T - now <= 60m.
C3_RateLimitWait ==
    (/\ outcome.kind # "none"
     /\ response.status_code = 403
     /\ response.remaining = Some("0")
     /\ HasResetTime(response))
    => /\ outcome.kind = "raise"
       /\ outcome.exc = "GitHubRateLimitError"
       /\ IsInstance(outcome.exc, "GitHubError")
       /\ outcome.message.minutes = exact_minutes(response.reset[1], now)

\* the rate-limit error is raised, with the message of the body, whenever the
\* body is JSON with a "message" and T is a time, and the wait is rounded up
\* as claimed when T has no more digits than a float keeps
C3_HoldsOfUsableResponse ==
    (/\ outcome.kind # "none"
     /\ response.status_code = 403
     /\ response.remaining = Some("0")
     /\ IsTimestamp(response, tz)
     /\ HasMessage(response))
    => /\ outcome.kind = "raise"
       /\ outcome.exc = "GitHubRateLimitError"
       /\ IsInstance(outcome.exc, "GitHubError")
       /\ outcome.message.text = response.body.message[1]
       /\ IsExactFloat(response)
            => outcome.message.minutes = exact_minutes(response.reset[1], now)

\* a wait of 61 seconds is reported as 2 minutes
C3_UsableResponseReached ==
    /\ outcome.kind = "raise"
    /\ outcome.exc = "GitHubRateLimitError"
    /\ response.reset = Some(<<"6", "1">>)
    /\ now = 0
    /\ outcome.message.minutes = <<"2">>

\* a wait of 9007199254741021 seconds, which is 2^53 + 29 and no float, is
\* reported as 150119987579017 minutes, one less than it rounds up to
C3_RoundedWaitReached ==
    /\ outcome.kind = "raise"
    /\ outcome.exc = "GitHubRateLimitError"
    /\ HasResetTime(response)
    /\ ~IsExactFloat(response)
    /\ now = 0
    /\ outcome.message.minutes = str(big_minus(big_int(exact_minutes(response.reset[1], now)), big(1)))
    /\ outcome.message.minutes
         = <<"1", "5", "0", "1", "1", "9", "9", "8", "7", "5", "7", "9", "0", "1", "7">>

\* C4: every 4xx response raises GitHubError with the endpoint's message, and
\* the raised error is the GitHubRateLimitError variant exactly when the status
\* is 403 and X-RateLimit-Remaining is "0"; no other response raises it.
C4_ErrorClasses ==
    /\ (/\ outcome.kind # "none"
        /\ 400 <= response.status_code /\ response.status_code <= 499)
       => /\ outcome.kind = "raise"
          /\ IsInstance(outcome.exc, "GitHubError")
          /\ outcome.message.text = response.body.message[1]
          /\ (outcome.exc = "GitHubRateLimitError"
                <=> (response.status_code = 403 /\ response.remaining = Some("0")))
    /\ (outcome.kind = "raise" /\ outcome.exc = "GitHubRateLimitError"
          => response.status_code = 403 /\ response.remaining = Some("0"))

\* the classes are as claimed for every 4xx response whose body is JSON with
\* a "message" and, where the rate limit is hit, whose reset header is a time
C4_HoldsOfUsableResponse ==
    /\ (/\ outcome.kind # "none"
        /\ 400 <= response.status_code /\ response.status_code <= 499
        /\ HasMessage(response)
        /\ (response.status_code = 403 /\ response.remaining = Some("0")
               => IsTimestamp(response, tz)))
       => /\ outcome.kind = "raise"
          /\ IsInstance(outcome.exc, "GitHubError")
          /\ outcome.message.text = response.body.message[1]
          /\ (outcome.exc = "GitHubRateLimitError"
                <=> (response.status_code = 403 /\ response.remaining = Some("0")))
    /\ (outcome.kind = "raise" /\ outcome.exc = "GitHubRateLimitError"
          => response.status_code = 403 /\ response.remaining = Some("0"))

\* a 404 whose remaining quota reads "0" raises the plain GitHubError
C4_PlainErrorReached ==
    /\ outcome.kind = "raise"
    /\ outcome.exc = "GitHubError"
    /\ response.status_code = 404
    /\ response.remaining = Some("0")

\* the first page without a next link, 0 when every page has one
LastPage ==
    IF \E k \in 1..MaxPages : ~has_next(server[k])
    THEN CHOOSE k \in 1..MaxPages :
            ~has_next(server[k]) /\ \A j \in 1..(k - 1) : has_next(server[j])
    ELSE 0

\* a page of results: its status is no client error and its body is a JSON list
IsResultPage(r) ==
    ~(400 <= r.status_code /\ r.status_code <= 499) /\ r.body.kind = "list"

RECURSIVE ItemsUpTo(_)
ItemsUpTo(k) == IF k = 0 THEN <<>> ELSE ItemsUpTo(k - 1) \o server[k].body.items

ExpectedQueries(n) ==
    [k \in 1..n |-> IF k = 1 THEN [per_page |-> batch_size, page |-> Absent]
                    ELSE [per_page |-> batch_size, page |-> Some(k)]]

\* C2: when pages 1..N-1 carry rel="next" and page N does not, github_request_list
\* issues exactly N requests, the first with per_page=batch_size alone and the
\* k-th with page=k, and returns the items of the N pages in page order.
C2_Pagination ==
    (/\ listPc \in {"returned", "raised"}
     /\ LastPage > 0
     /\ \A k \in 1..LastPage : IsResultPage(server[k]))
    => /\ listPc = "returned"
       /\ requests = ExpectedQueries(LastPage)
       /\ result = ListBody(ItemsUpTo(LastPage))

\* three pages fetched and returned
C2_Witness ==
    /\ listPc = "returned"
    /\ LastPage = 3
    /\ Len(requests) = 3
    /\ Len(result.items) >= 3

\* the name on the ignore list
OnIgnoreList(name) == \E i \in 1..Len(config.ignore) : config.ignore[i] = name

\* the name a working tree goes by: the last part of its URL, which is
\* "origin" where no remote is configured, or of its path where the URL is empty
ExpectedName(d) ==
    IF d = DIR_A THEN <<"a">>
    ELSE IF d = DIR_B THEN (IF repo[d].origin = Absent THEN ORIGIN ELSE <<"b">>)
    ELSE <<"c">>

\* what the filter is to let through, on the facts of a finished iteration
Wanted(e) ==
    /\ e.tag # ""
    /\ ~OnIgnoreList(e.name)
    /\ (config.skip_branches => e.branch = "master")

YieldedEntries == SelectSeq(log, LAMBDA e : e.yielded)

\* C5: every project get_projects yields has a non-empty last tag, a name that
\* is not on the ignore list and, when skip-branches is set, is on master; and
\* every discovered working tree with these three properties is yielded.
C5_FilterProjects ==
    /\ \A i \in 1..Len(log) :
          /\ log[i].name = ExpectedName(log[i].working_tree)
          /\ log[i].yielded <=> Wanted(log[i])
    /\ Len(yielded) = Len(YieldedEntries)
    /\ \A i \in 1..Len(yielded) :
          /\ yielded[i].working_tree = YieldedEntries[i].working_tree
          /\ yielded[i].facts.last_tag = Some(YieldedEntries[i].tag)
          /\ yielded[i].facts.last_tag # Some("")
    /\ projPc = "done" =>
          /\ Len(log) = Len(repos)
          /\ \A i \in 1..Len(repos) : log[i].working_tree = repos[i]
          /\ \A d \in Dirs :
                (\E i \in 1..Len(repos) : repos[i] = d)
                <=> (is_git(d) /\ \E i \in 1..Len(config.projects) :
                        \E j \in 1..Len(glob(config.projects[i])) :
                            glob(config.projects[i])[j] = d)

\* a run that yielded one project and dropped another that is on the ignore list
C5_Witness ==
    /\ projPc = "done"
    /\ Len(yielded) >= 1
    /\ \E i \in 1..Len(log) : ~log[i].yielded /\ OnIgnoreList(log[i].name) /\ log[i].tag # ""
    /\ \E i \in 1..Len(log) : ~log[i].yielded /\ ~OnIgnoreList(log[i].name)

\* C6 as stated: when fetch or pull is configured, no lazy fact of a project is
\* computed and cached before that project's fetch/pull has run.
C6_NoFactBeforeUpdate ==
    (config.fetch \/ config.pull) /\ p.facts # NoFacts
    => (config.fetch => p.fetched) /\ (config.pull => p.pulled)

\* C6, amended: when fetch or pull is configured, the update of a project runs
\* before its last_tag is read, so the cached last_tag is the one the update
\* left; url is read before the update (for the ignore test), and so is branch
\* when skip-branches is set.
C6_UpdateBeforeLastTag ==
    /\ p.facts.last_tag # Absent =>
          /\ (config.fetch => p.fetched) /\ (config.pull => p.pulled)
          /\ p.facts.last_tag = Some(repo[p.working_tree].tag)
    /\ \A i \in 1..Len(yielded) :
          (config.fetch => yielded[i].fetched) /\ (config.pull => yielded[i].pulled)
    /\ (p.fetched \/ p.pulled) =>
          /\ p.facts.url # Absent
          /\ (config.skip_branches => p.facts.branch # Absent)

\* a project whose cached last_tag is the tag its fetch brought
C6_Witness ==
    /\ config.fetch
    /\ p.fetched
    /\ p.facts.url # Absent
    /\ p.facts.last_tag = Some(NewTag)

\* C7: print_html_report renders the whole document in memory before it opens
\* the output file: when enumerating the projects or rendering raises, the
\* file written earlier is untouched, and the file is touched only once every
\* project has been rendered.
C7_RenderBeforeOpen ==
    /\ failure.at \in {"enumerate", "render"} => file = OLD_FILE
    /\ file # OLD_FILE =>
          /\ args.html
          /\ Len(html) = Len(TabPanes) * Len(projects)
          /\ \A t \in 1..Len(TabPanes), k \in 1..Len(projects) :
                /\ html[(t - 1) * Len(projects) + k].table = TabPanes[t]
                /\ html[(t - 1) * Len(projects) + k].url = projects[k].url
          /\ failure.at \notin {"enumerate", "render"}
    /\ mainPc = "return" /\ args.html /\ args.output_file = "output.html"
          => file = Written(html)

\* rendering raised at the second project, and the old report is still on disk
C7_Witness ==
    /\ exit.done
    /\ args.html
    /\ args.output_file = "output.html"
    /\ failure.at = "render"
    /\ Len(html) = 1
    /\ file = OLD_FILE

NetworkErrors == {"ConnectionError", "HTTPError", "GitHubError", "GitHubRateLimitError"}

\* C8: a ConnectionError, HTTPError, GitHubError or GitHubRateLimitError raised
\* while the HTML report is produced ends the process with a short message, no
\* traceback and a non-zero exit code.
C8_NetworkErrorsNoTraceback ==
    exit.done /\ args.html /\ failure.exc \in NetworkErrors
    => /\ ~stderr.traceback
       /\ stderr.message # ""
       /\ exit.code # 0

\* C9: any other exception raised while the HTML report is produced prints its
\* traceback and the process ends with a non-zero exit code; no exception at
\* all leaves main with exit code zero.
C9_OtherErrorsTraceback ==
    /\ exit.done /\ args.html /\ failure.exc # "" /\ failure.exc \notin NetworkErrors
       => stderr.traceback /\ exit.code # 0
    /\ exit.done /\ failure.exc # "" => exit.code # 0
    /\ exit.done /\ exit.code = 0 => failure = NoFailure /\ stderr = Quiet

\* a ValueError in the HTML report: traceback, exit code 1
C9_Witness ==
    /\ exit.done
    /\ args.html
    /\ failure.exc = "ValueError"
    /\ stderr.traceback
    /\ exit.code = 1

\* C10: a network or parse failure while fetching one project's coverage badge
\* stays inside the Project: coverage_number is None for that project, and the
\* failure never ends the report.
C10_BadgeFailureStaysInProject ==
    /\ failure.fact # "coverage_number"
    /\ \A i \in 1..Len(html) :
          LET k == ((i - 1) % Len(projects)) + 1
          IN (html[i].table = "maintenance"
                /\ uses_travis(projects[k])
                /\ (\/ projects[k].coveralls.raises # ""
                    \/ projects[k].coveralls.status_code # 302
                    \/ projects[k].coveralls.location \notin {Some(BADGE_87)}))
             => html[i].coverage_number = Absent

\* how many columns of the page have the class of column n
SameClass(columns, n) == Cardinality({k \in 1..Len(columns) : columns[k] = columns[n]})

\* C11: in the stylesheet a column whose CSS class is unique in its page is
\* selected by that class; a column without a class, or whose class another
\* column of the page has too, is selected by :nth-child(n), n counted from
\* 1; of two columns that share a class both are selected by position,
\* neither by the class.
C11_SelectorFallback ==
    call.fn = "stylesheet" /\ ret # Absent =>
        LET columns == call.arg
            selector == ret[1]
        IN /\ \A n \in 1..Len(columns) :
                  IF columns[n] # "" /\ SameClass(columns, n) = 1
                  THEN selector[n].by = "." /\ selector[n].css_class = columns[n]
                  ELSE selector[n].by = ":nth-child" /\ selector[n].nth_child = n
           /\ \A n \in 1..Len(columns), k \in 1..Len(columns) :
                  n # k /\ columns[n] = columns[k]
                      => /\ selector[n].by = ":nth-child" /\ selector[n].nth_child = n
                         /\ selector[k].by = ":nth-child" /\ selector[k].nth_child = k
           /\ \A n \in 1..Len(columns), k \in 1..Len(columns) :
                  n # k => selector[n] # selector[k]

\* two columns of class frog around one of class bork
C11_Witness ==
    /\ call.fn = "stylesheet" /\ ret # Absent
    /\ call.arg = <<"frog", "bork", "frog">>
    /\ ret[1] = <<ByPosition(1), ByClass("bork"), ByPosition(3)>>

\* a row of the report has been rendered for the project call.arg
StatusRendered == call.fn = "status_cells" /\ ret # Absent

\* both URLs of a provider are None when it is not used, neither when it is
BothNoneIffUnused(uses, url, image_url) ==
    IF uses THEN url # None /\ image_url # None
    ELSE url = None /\ image_url = None

\* C12: for Travis, Appveyor, Coveralls and Jenkins the provider's URL and
\* image URL are both None when the project does not use the provider and
\* both not None when it does, so that the URL is None exactly when the
\* image URL is.  (The Coveralls properties test uses_travis.)
C12_UrlsNoneIffUnused ==
    StatusRendered =>
        LET e == call.arg
            urls == ret[1].urls
        IN /\ BothNoneIffUnused(uses_travis(e), urls.travis_url, urls.travis_image_url)
           /\ BothNoneIffUnused(uses_appveyor(e), urls.appveyor_url, urls.appveyor_image_url)
           /\ BothNoneIffUnused(uses_travis(e), urls.coveralls_url, urls.coveralls_image_url)
           /\ \A j \in 1..Len(e.jenkins_jobs) :
                  BothNoneIffUnused(uses_jenkins(e), urls.jenkins_url[j],
                                    urls.jenkins_image_url[j])

\* a project that uses Travis (and so Coveralls) and Jenkins, not Appveyor
C12_Witness ==
    /\ StatusRendered
    /\ uses_travis(call.arg) /\ ~uses_appveyor(call.arg) /\ uses_jenkins(call.arg)
    /\ call.arg.appveyor_yml
    /\ ret[1].urls.travis_url # None /\ ret[1].urls.coveralls_image_url # None
    /\ ret[1].urls.appveyor_url = None /\ ret[1].urls.appveyor_image_url = None
    /\ ret[1].urls.jenkins_url[2] # None

\* the cell of a provider: the linked image when it has both URLs, else "-"
IsCellOf(cell, url, image_url) ==
    IF url # None /\ image_url # None
    THEN cell.text = "a" /\ cell.href = url /\ cell.src = image_url
    ELSE cell.text = "-"

\* C13: a status cell (build, Jenkins, Appveyor, Coveralls) is the linked
\* status image when the project has a URL and an image URL for the
\* provider and "-" when it has not; a project without CI has "-" in every
\* such cell, and rendering its row does not raise.
C13_StatusCells ==
    StatusRendered =>
        LET urls == ret[1].urls
            cells == ret[1].cells
        IN /\ cells.raises = ""
           /\ IsCellOf(cells.value.travis, urls.travis_url, urls.travis_image_url)
           /\ IsCellOf(cells.value.appveyor, urls.appveyor_url, urls.appveyor_image_url)
           /\ IsCellOf(cells.value.coveralls, urls.coveralls_url, urls.coveralls_image_url)
           /\ \A j \in 1..Len(cells.value.jenkins) :
                  IsCellOf(cells.value.jenkins[j], urls.jenkins_url[j],
                           urls.jenkins_image_url[j])

\* C14: coverage_number is always None or an integer from 0 to 100: None
\* when there is no coverage badge, when the badge request is not answered
\* by a redirect to a coveralls asset, or when the asset is
\* coveralls_unknown.svg; otherwise the n of coveralls_<n>.svg.
C14_CoverageNumber ==
    StatusRendered =>
        LET e == call.arg
            number == ret[1].coverage_number
        IN /\ number.raises = ""
           /\ number.value = Absent \/ number.value[1] \in 0..100
           /\ ~uses_travis(e) => number.value = Absent
           /\ uses_travis(e) /\ e.coveralls = Reply(302, Some(BADGE_87))
                  => number.value = Some(87)
           /\ uses_travis(e) /\ e.coveralls.status_code # 302 => number.value = Absent
           /\ uses_travis(e) /\ e.coveralls = Reply(302, Some(BADGE_UNKNOWN))
                  => number.value = Absent

\* how many entries of the list have the number n
Occurrences(list, n) == Cardinality({i \in 1..Len(list) : list[i].number = n})
\* the entries of the list keep the order of the listing
InListingOrder(list) ==
    \A i \in 1..Len(list), j \in 1..Len(list) : i < j => list[i].number < list[j].number
\* how many entries of the list have no label
Unlabeled(list) == Cardinality({i \in 1..Len(list) : Len(list[i].labels) = 0})

\* C15: github_issues and github_pulls partition github_issues_and_pulls by
\* the pull_request field and keep its order: every entry is in exactly one
\* of the two lists, the two open counts add up to the number of entries,
\* and each unlabeled count is the number of entries of its list that have
\* no label, so it never exceeds the open count of that list.
C15_IssuesAndPullsPartition ==
    call.fn = "issue_facts" /\ ret # Absent =>
        LET facts == ret[1].value
            all == facts.github_issues_and_pulls
        IN /\ all = IF is_on_github(call.arg) THEN call.arg.listing ELSE <<>>
           /\ \A i \in 1..Len(all) :
                  /\ Occurrences(facts.github_issues, all[i].number)
                        = IF all[i].pull_request THEN 0 ELSE 1
                  /\ Occurrences(facts.github_pulls, all[i].number)
                        = IF all[i].pull_request THEN 1 ELSE 0
           /\ InListingOrder(facts.github_issues)
           /\ InListingOrder(facts.github_pulls)
           /\ facts.open_issues_count + facts.open_pulls_count = Len(all)
           /\ facts.open_issues_count = Len(facts.github_issues)
           /\ facts.open_pulls_count = Len(facts.github_pulls)
           /\ facts.unlabeled_open_issues_count = Unlabeled(facts.github_issues)
           /\ facts.unlabeled_open_pulls_count = Unlabeled(facts.github_pulls)
           /\ facts.unlabeled_open_issues_count <= facts.open_issues_count
           /\ facts.unlabeled_open_pulls_count <= facts.open_pulls_count

\* a labelled issue, then a pull request and an issue without labels
C15_Witness ==
    /\ call.fn = "issue_facts" /\ ret # Absent
    /\ is_on_github(call.arg)
    /\ Len(call.arg.listing) = 3
    /\ ~call.arg.listing[1].pull_request /\ call.arg.listing[1].labels # <<>>
    /\ call.arg.listing[2].pull_request /\ call.arg.listing[2].labels = <<>>
    /\ ~call.arg.listing[3].pull_request /\ call.arg.listing[3].labels = <<>>
    /\ ret[1].value.open_issues_count = 2
    /\ ret[1].value.unlabeled_open_issues_count = 1
    /\ ret[1].value.open_pulls_count = 1
    /\ ret[1].value.unlabeled_open_pulls_count = 1

\* a GitHub URL of one of the three forms
IsGithubUrl(url) ==
    /\ url # None
    /\ \/ startswith(url, GIT_PREFIX)
       \/ startswith(url, SSH_PREFIX)
       \/ startswith(url, HTTPS_PREFIX)

\* normalize_github_url has been applied n times or more
Normalized(n) == call.fn = "normalize_github_url" /\ Len(ret) >= n

\* C16 as stated: normalize_github_url is idempotent on every SSH-style,
\* git-protocol and https://github.com/ URL, with or without a trailing
\* .git: applying it twice gives what applying it once gives.
C16_Idempotent ==
    Normalized(2) /\ IsGithubUrl(call.arg) => ret[2] = ret[1]

\* C16 as amended: it is idempotent on every such URL that does not end in
\* a doubled .git; an application strips one trailing .git, so on a URL
\* ending in .git.git the second application strips the .git the first left.
C16_IdempotentUnlessDoubledGit ==
    Normalized(2) /\ IsGithubUrl(call.arg)
        => IF endswith(call.arg, DOT_GIT \o DOT_GIT)
           THEN ret[1] = ret[2] \o DOT_GIT
           ELSE ret[2] = ret[1]

C16_Witness ==
    /\ Normalized(2)
    /\ call.arg = SSH_PREFIX \o <<"o", "/", "a", ".", "g", "i", "t">>
    /\ ret[1] = HTTPS_PREFIX \o <<"o", "/", "a">>
    /\ ret[2] = ret[1]

\* C17: normalize_github_url returns its argument unchanged for None, for
\* the empty string and for every URL that begins with none of
\* git://github.com/, git@github.com: and https://github.com/, a trailing
\* .git of such a URL included.
C17_OtherUrlsUnchanged ==
    Normalized(1) /\ ~IsGithubUrl(call.arg) => ret[1] = call.arg

C17_Witness ==
    /\ Normalized(1)
    /\ call.arg = <<"f", "r", "i", "d", "g", "e", ":", "g", "i", "t", "/", "o", "/", "a", ".", "g", "i", "t">>
    /\ ret[1] = call.arg

\* the call has returned v; the call has raised exc
Returned(v) == ret # Absent /\ ret[1].raises = "" /\ ret[1].value = v
Raised(exc) == ret # Absent /\ ret[1].raises = exc

\* the spellings of the units that the specification of to_seconds accepts
SecondsSpellings ==
    {<<"s">>,
     <<"s", "e", "c">>,
     <<"s", "e", "c", "o", "n", "d">>,
     <<"s", "e", "c", "o", "n", "d", "s">>}
MinutesSpellings ==
    {<<"m">>,
     <<"m", "i", "n">>,
     <<"m", "i", "n", "u", "t", "e">>,
     <<"m", "i", "n", "u", "t", "e", "s">>}
HoursSpellings ==
    {<<"h">>,
     <<"h", "o", "u", "r">>,
     <<"h", "o", "u", "r", "s">>}
AcceptedSpellings == SecondsSpellings \cup MinutesSpellings \cup HoursSpellings
SecondsIn(w) ==
    IF w \in SecondsSpellings THEN 1 ELSE IF w \in MinutesSpellings THEN 60 ELSE 3600

\* to_seconds was called on the number n followed by the word w, with or
\* without a space before each, and has returned or raised
Spelled(n, w) ==
    /\ call.fn = "to_seconds"
    /\ ret # Absent
    /\ \E a \in Spaces, b \in Spaces : call.arg = a \o n \o b \o w

\* the numbers tried that are written in the decimal digits 0-9
DecimalNumbers ==
    {n \in Numbers : Len(n) > 0 /\ \A i \in 1..Len(n) : n[i] \in Digits}

\* C18 as stated: to_seconds returns n for a bare integer n, and n*1, n*60 or
\* n*3600 for n followed by an accepted spelling of seconds, minutes or hours,
\* whatever the spaces, so that "5m", "5 min" and "5 minutes" all give 300.
C18_ToSecondsValues ==
    \A n \in DecimalNumbers \cup LongNumbers :
        /\ Spelled(n, <<>>) => Returned(int(n))
        /\ \A w \in AcceptedSpellings :
               Spelled(n, w) => Returned(int(n) * SecondsIn(w))

\* C18 as amended: this holds of every integer written in no more digits
\* than int() converts; on a longer one, alone or before an accepted unit,
\* to_seconds raises the ValueError of int().
C18_ToSecondsValuesWithinIntLimit ==
    \A n \in DecimalNumbers \cup LongNumbers :
        IF Len(n) <= int_max_str_digits
        THEN /\ Spelled(n, <<>>) => Returned(int(n))
             /\ \A w \in AcceptedSpellings :
                    Spelled(n, w) => Returned(int(n) * SecondsIn(w))
        ELSE \A w \in AcceptedSpellings \cup {<<>>} :
                    Spelled(n, w) => Raised("ValueError")

C18_Witness ==
    /\ Spelled(<<"5">>, <<"m", "i", "n", "u", "t", "e", "s">>)
    /\ call.arg = <<"5", " ", "m", "i", "n", "u", "t", "e", "s">>
    /\ Returned(300)

\* a unit spelled with at least one upper-case letter
IsUpperSpelling(w) == w # lower(w) /\ lower(w) \in AcceptedSpellings

\* C19 as stated: to_seconds is case-insensitive, so a unit spelled in upper
\* or mixed case ("5M", "5 Min", "2 HOURS") gives the same number of seconds
\* as its lower-case spelling.
C19_CaseInsensitive ==
    \A n \in DecimalNumbers, w \in OtherWords :
        IsUpperSpelling(w) /\ Spelled(n, w)
            => Returned(int(n) * SecondsIn(lower(w)))

\* C19 as amended: to_seconds ignores spaces, also inside the unit, but not
\* case: a unit spelled with an upper-case letter raises ValueError.
C19_SpaceInsensitiveCaseSensitive ==
    \A n \in DecimalNumbers :
        /\ Spelled(n, <<"m", "i", " ", "n">>) => Returned(int(n) * 60)
        /\ \A w \in OtherWords :
               IsUpperSpelling(w) /\ Spelled(n, w) => Raised("ValueError")

C19_Witness ==
    /\ Spelled(<<"5">>, <<"M", "i", "n">>)
    /\ call.arg = <<"5", " ", "M", "i", "n">>
    /\ Raised("ValueError")

\* digits followed by nothing or by an accepted unit spelling
IsAcceptedDuration(s) ==
    \E k \in 1..Len(s) :
        /\ \A i \in 1..k : s[i] \in Digits
        /\ SubSeq(s, k + 1, Len(s)) \in AcceptedSpellings \cup {<<>>}

\* C20: for every string that, spaces apart, is neither all digits nor digits
\* followed by an accepted unit spelling ("uhh", the empty string, a unit
\* with no number), to_seconds raises ValueError and returns no value.
C20_BadTimeRaises ==
    call.fn = "to_seconds" /\ ret # Absent
    /\ ~IsAcceptedDuration(SelectSeq(call.arg, LAMBDA c : c # " "))
        => Raised("ValueError")

C20_Witness ==
    /\ call.fn = "to_seconds"
    /\ call.arg = <<"u", "h", "h">>
    /\ Raised("ValueError")

\* the body of the response is not parseable as JSON
NotJson(r) == r.body.kind = "text"

\* C21: github_request fails with a GitHubError when the body of the response
\* cannot be parsed as JSON, even when the status code is 200; such a response
\* is never returned to the caller.
C21_NonJsonBodyRaises ==
    outcome.kind # "none" /\ NotJson(response)
       => /\ outcome.kind = "raise"
          /\ IsInstance(outcome.exc, "GitHubError")

\* the attribute of o is cached and was computed n times
ComputedTimes(o, n) == dict[o] # Absent /\ computations[o] = n

\* C22: a reified attribute stays cached until it is invalidated; deleting it
\* makes the next read, and only that read, recompute it: after k
\* invalidations, each followed by reads, the computation has run exactly
\* k + 1 times, and before the read that follows an invalidation exactly k
\* times.  The count of an instance depends on its own invalidations only.
\* (The counts are those of an instance whose attribute is only read and
\* deleted: a value assigned to the attribute is cached without a computation.)
C22_InvalidateRecomputes ==
    \A o \in Objs :
        /\ ~overridden[o] /\ dict[o] # Absent => computations[o] = invalidations[o] + 1
        /\ ~overridden[o] /\ dict[o] = Absent => computations[o] = invalidations[o]
        /\ computations[o] <= invalidations[o] + 1
        /\ run[o].reads >= 1 => dict[o] # Absent /\ run[o].comps = 1

\* one instance invalidated twice and read again, the other read only
C22_Witness ==
    \E o \in Objs :
        /\ invalidations[o] = 2
        /\ ComputedTimes(o, 3)
        /\ run[o].reads >= 2
        /\ \E x \in Objs \ {o} : invalidations[x] = 0 /\ ComputedTimes(x, 1)
        /\ \A x \in Objs : ~overridden[x]

\* the words of a text, split at every single space (str.split(' '))
RECURSIVE SplitAtSpaces(_)
SplitAtSpaces(s) ==
    IF \A i \in 1..Len(s) : s[i] # " " THEN <<s>>
    ELSE LET i == CHOOSE k \in 1..Len(s) :
                     s[k] = " " /\ \A j \in 1..(k - 1) : s[j] # " "
         IN <<SubSeq(s, 1, i - 1)>> \o SplitAtSpaces(SubSeq(s, i + 1, Len(s)))

\* the positions of the elements whose text is visible and wanted
VisibleAt(svg_body, excluded_words) ==
    {i \in 1..Len(svg_body.elements) :
        /\ svg_body.elements[i].tag \in {"text", "tspan"}
        /\ ~svg_body.elements[i].fill_opacity
        /\ svg_body.elements[i].content \notin excluded_words}

\* C23: badge text extraction returns the text of all <text> elements and
\* nested <tspan> elements in document order, joined by single spaces, without
\* the shadow elements (those with a fill-opacity attribute) and without the
\* words the caller excludes; on malformed input it returns the empty string
\* and raises nothing.
C23_BadgeText ==
    call.fn = "parse_badge_text" /\ ret # Absent =>
        LET svg_body == call.arg.svg_body
            visible == VisibleAt(svg_body, call.arg.excluded_words)
            text == ret[1].value
            words == SplitAtSpaces(text)
        IN /\ ret[1].raises = ""
           /\ ~svg_body.wellformed => text = <<>>
           /\ visible = {} => text = <<>>
           /\ visible # {} =>
                 /\ Len(words) = Cardinality(visible)
                 /\ \A k \in 1..Len(words) :
                       \E i \in visible :
                          /\ words[k] = svg_body.elements[i].content
                          /\ Cardinality({j \in visible : j < i}) = k - 1

\* the badge of the specification: a shadow copy of "passing", then the
\* crisp "build" and the crisp "passing", with "build" excluded
C23_Witness ==
    /\ call.fn = "parse_badge_text" /\ ret # Absent
    /\ call.arg.excluded_words = {BUILD}
    /\ Len(call.arg.svg_body.elements) = 3
    /\ call.arg.svg_body.elements[1] = [tag |-> "text", fill_opacity |-> TRUE, content |-> PASSING]
    /\ call.arg.svg_body.elements[2] = [tag |-> "text", fill_opacity |-> FALSE, content |-> BUILD]
    /\ call.arg.svg_body.elements[3] = [tag |-> "tspan", fill_opacity |-> FALSE, content |-> PASSING]
    /\ ret[1].value = PASSING

\* the hook moves the sort indicator of the column with this 0-based index
Relocates(h, col) ==
    /\ h.hook
    /\ IF h.test = ">=" THEN col >= h.indices[1]
       ELSE \E j \in 1..Len(h.indices) : col = h.indices[j]

\* the 0-based indices of the right-aligned columns of a page
RightAligned(aligns) == {i \in 0..(Len(aligns) - 1) : aligns[i + 1] = "right"}

\* C24: Page.js_render_header emits a hook only if at least one but not all
\* of the page's columns are right-aligned; the condition of the hook selects
\* exactly the 0-based indices of the right-aligned columns, written idx >= k
\* when they are the columns from k to the end of the table and otherwise as
\* a disjunction of idx == i; a page without columns emits nothing.
C24_RenderHeader ==
    call.fn = "js_render_header" /\ ret # Absent =>
        LET aligns == call.arg
            n == Len(call.arg)
            right == RightAligned(call.arg)
            h == ret[1].value
        IN /\ ret[1].raises = ""
           /\ h.hook <=> (right # {} /\ right # 0..(n - 1))
           /\ n = 0 => ~h.hook
           /\ h.hook =>
                 /\ \A col \in 0..(n - 1) : Relocates(h, col) <=> col \in right
                 /\ IF \E k \in 0..(n - 1) : right = k..(n - 1)
                    THEN h.test = ">=" /\ Len(h.indices) = 1 /\ right = h.indices[1]..(n - 1)
                    ELSE /\ h.test = "=="
                         /\ Len(h.indices) = Cardinality(right)
                         /\ \A j \in 1..Len(h.indices) : h.indices[j] \in right
                         /\ \A j \in 1..(Len(h.indices) - 1) : h.indices[j] < h.indices[j + 1]

\* the page of tests.py:1352-1366, whose hook tests idx == 1 || idx == 3
C24_Witness ==
    /\ call.fn = "js_render_header" /\ ret # Absent
    /\ call.arg = <<"", "right", "", "right">>
    /\ ret[1].value = Hook("==", <<1, 3>>)

\* the project has no URL: None or the empty string
HasNoUrl(e) == normalize_github_url(e.origin) \in {None, <<>>}

\* reading the fact raised nothing and gave None
IsNone(fact) == fact.raises = "" /\ fact.value = None

\* C25: is_on_github is true exactly when the project's URL starts with
\* https://github.com/, and it is false, not an error, when the project has
\* no URL (None or empty); for such a project the owner, the compare URL, the
\* issues URL and the CI URLs are None and reading them raises nothing.
C25_NoUrlIsNotAnError ==
    call.fn = "url_facts" /\ ret # Absent =>
        LET e == call.arg
            facts == ret[1]
        IN /\ facts.is_on_github.raises = ""
           /\ facts.is_on_github.value
                 <=> (facts.url.value # None
                      /\ Len(facts.url.value) >= Len(HTTPS_PREFIX)
                      /\ SubSeq(facts.url.value, 1, Len(HTTPS_PREFIX)) = HTTPS_PREFIX)
           /\ HasNoUrl(e) =>
                 /\ facts.is_on_github.value = FALSE
                 /\ IsNone(facts.owner)
                 /\ IsNone(facts.compare_url)
                 /\ IsNone(facts.issues_url)
                 /\ IsNone(facts.travis_url) /\ IsNone(facts.travis_image_url)
                 /\ IsNone(facts.appveyor_url) /\ IsNone(facts.appveyor_image_url)
                 /\ IsNone(facts.coveralls_url) /\ IsNone(facts.coveralls_image_url)

\* the same holds of every project whose URL is a string, the empty one included
C25_HoldsOfStringUrl ==
    call.fn = "url_facts" /\ ret # Absent /\ call.arg.origin # None => C25_NoUrlIsNotAnError

\* the Link header of the response declares a next page
DeclaresNext(r) == \E i \in 1..Len(r.link) : r.link[i] = "next"

\* every request but the last one was answered by a page that declares a next
\* page, so no page is requested after the first response that declares none
NoRequestAfterLastPage == \A k \in 1..(Len(requests) - 1) : DeclaresNext(server[k])

\* the call has ended: it has returned, or an exception has left it
Ended == listPc \in {"returned", "raised"}

\* the pages served so far
Served == 1..Len(requests)

\* C26 as stated: github_request_list terminates if and only if the response
\* of some page declares no next page, and it requests no page after the
\* first such response.
C26_Termination ==
    /\ [](NoRequestAfterLastPage)
    /\ [](Ended => \E k \in Served : ~DeclaresNext(server[k]))
    /\ ((\E k \in 1..MaxPages : ~DeclaresNext(server[k])) ~> Ended)

\* a status code in 400-499
IsClientError(r) == 400 <= r.status_code /\ r.status_code <= 499

\* C26 as amended: github_request_list returns only on a response that
\* declares no next page, requests no page after the first such response and
\* ends once the endpoint serves one; an error ends it as well, whatever the
\* Link headers say: a page with a status in 400-499 is the last one
\* requested and the call raises.  There is no page limit on the client side:
\* the call neither returns nor raises while every page served so far
\* declares a next page and is a page of results.
C26_EndsOnLastPageOrError ==
    /\ [](NoRequestAfterLastPage)
    /\ [](listPc = "returned" =>
            Len(requests) >= 1 /\ ~DeclaresNext(server[Len(requests)]))
    /\ ((\E k \in 1..MaxPages : ~DeclaresNext(server[k])) ~> Ended)
    /\ [](\A k \in Served :
            IsClientError(server[k]) => listPc = "raised" /\ k = Len(requests))
    /\ []((\A k \in Served : DeclaresNext(server[k]) /\ IsResultPage(server[k]))
            => ~Ended)

\* returned after the second page, the first without a next link, although
\* the endpoint has a third page that declares one
C26_Witness ==
    /\ listPc = "returned"
    /\ Len(requests) = 2
    /\ DeclaresNext(server[1]) /\ ~DeclaresNext(server[2]) /\ DeclaresNext(server[3])

\* the filter skips the working tree d before any update: its name is on the
\* ignore list, or skip-branches is set and it is not on master
SkippedEarly(d) ==
    \/ OnIgnoreList(ExpectedName(d))
    \/ config.skip_branches /\ repo[d].branch # "master"

\* C27: get_projects never fetches or pulls a project that the ignore list or
\* skip-branches skips; every other project is fetched when fetch is
\* configured and pulled when pull is configured, the fetch before the pull,
\* and this also when the project has no tag and so is not yielded.
C27_UpdateOnlyKeptProjects ==
    /\ \A i \in 1..Len(log) :
          IF SkippedEarly(log[i].working_tree)
          THEN ~log[i].fetched /\ ~log[i].pulled /\ ~log[i].yielded
          ELSE /\ log[i].fetched <=> config.fetch
               /\ log[i].pulled <=> config.pull
    /\ (p.fetched \/ p.pulled) => ~SkippedEarly(p.working_tree)
    /\ p.pulled /\ config.fetch => p.fetched

\* a project without a tag, fetched and pulled and not yielded, while the
\* project of this iteration has been fetched and not yet pulled
C27_Witness ==
    /\ config.fetch /\ config.pull
    /\ \E i \in 1..Len(log) :
          /\ log[i].tag = "" /\ ~log[i].yielded
          /\ log[i].fetched /\ log[i].pulled
    /\ p.fetched /\ ~p.pulled

\* main has reached get_projects with this configuration
ReachedGetProjects == call.fn = "main_options" /\ ret # Absent /\ ret[1].raises = ""

\* C28: in main, when --fetch, --pull or --skip-branches is not given on the
\* command line, the value of the configuration file remains in effect; the
\* flag changes the setting only when it is given.
C28_ConfigKeptWithoutFlag ==
    ReachedGetProjects =>
        LET cfg == call.arg.cfg
            argv == call.arg.argv
            effective == ret[1].value
        IN /\ effective.fetch = (IF argv.fetch THEN TRUE ELSE cfg.fetch)
           /\ effective.pull = (IF argv.pull THEN TRUE ELSE cfg.pull)
           /\ effective.skip_branches
                 = (IF argv.skip_branches THEN TRUE ELSE cfg.skip_branches)

\* how many times the working tree d is in the list
TimesIn(list, d) == Cardinality({i \in 1..Len(list) : list[i] = d})

\* how many times the patterns of the configuration match the directory d
TimesMatched(d) ==
    Cardinality({m \in (1..Len(config.projects)) \X (1..Cardinality(Dirs)) :
                    /\ m[2] <= Len(glob(config.projects[m[1]]))
                    /\ glob(config.projects[m[1]])[m[2]] = d})

\* the working trees of the list, in order
WorkingTrees(list) == [i \in 1..Len(list) |-> list[i].working_tree]

\* C29 as stated: get_repos returns the matching directories in sorted order,
\* each directory at most once even when several patterns match it, so
\* get_projects updates and yields every repository at most once.
C29_EachRepoOnce ==
    projPc # "start" =>
        /\ \A i \in 1..(Len(repos) - 1) : ~str_lt(repos[i + 1], repos[i])
        /\ \A d \in Dirs :
              /\ TimesIn(repos, d) <= 1
              /\ TimesIn(WorkingTrees(log), d) <= 1
              /\ TimesIn(WorkingTrees(yielded), d) <= 1

\* C29, amended: get_repos returns the matching directories in sorted order,
\* each git working tree once for every pattern that matches it, so a
\* directory that several patterns match is listed, and then filtered,
\* updated and yielded by get_projects, once for each of these patterns.
C29_OncePerMatchingPattern ==
    projPc # "start" =>
        /\ \A i \in 1..(Len(repos) - 1) : ~str_lt(repos[i + 1], repos[i])
        /\ \A d \in Dirs :
              /\ TimesIn(repos, d) = (IF is_git(d) THEN TimesMatched(d) ELSE 0)
              /\ TimesIn(WorkingTrees(log), d) <= TimesIn(repos, d)
              /\ projPc = "done" =>
                    /\ TimesIn(WorkingTrees(log), d) = TimesIn(repos, d)
                    /\ \A i \in 1..Len(log), j \in 1..Len(log) :
                          log[i].working_tree = d /\ log[j].working_tree = d
                          /\ log[i].tag = log[j].tag
                             => log[i].yielded = log[j].yielded

\* ~/r/* and ~/r/a both match /r/a: it is listed twice, fetched twice and
\* yielded twice
C29_Witness ==
    /\ projPc = "done"
    /\ config.projects = <<"~/r/*", "~/r/a">>
    /\ TimesIn(repos, DIR_A) = 2
    /\ TimesIn(WorkingTrees(yielded), DIR_A) = 2
    /\ \A i \in 1..Len(log) : log[i].working_tree = DIR_A => log[i].fetched
    /\ config.fetch

\* the status code is outside 400-499
NoClientError(r) == r.status_code < 400 \/ r.status_code > 499

\* what the pages 1..k add to the result: the items of a list, the keys of
\* a JSON object
RECURSIVE EntriesUpTo(_)
EntriesUpTo(k) ==
    IF k = 0 THEN <<>>
    ELSE EntriesUpTo(k - 1)
         \o (IF server[k].body.kind = "list" THEN server[k].body.items
             ELSE IF server[k].body.message = Absent THEN <<>>
             ELSE <<<<"message">>>>)

\* C30: github_request raises nothing and returns the response unchanged for
\* every status code outside 400-499, the 5xx codes included, so
\* github_request_list takes the body of a 5xx response for an ordinary page
\* of results and reports no failure of the service.
C30_ServerErrorIsAPage ==
    /\ \A k \in 1..MaxPages, status \in Statuses :
          LET r == [server[k] EXCEPT !.status_code = status]
          IN NoClientError(r) => github_request(r, now, tz) = Return(r)
    /\ listPc \in {"loop", "returned"} =>
          /\ res = server[Len(requests)]
          /\ raised = ""
          /\ IF server[1].body.kind = "list"
             THEN result = ListBody(EntriesUpTo(Len(requests)))
             ELSE Len(requests) = 1 /\ result = server[1].body
    /\ listPc = "raised" =>
          \/ ~NoClientError(server[Len(requests)])
          \/ Len(requests) >= 2 /\ server[1].body.kind # "list"
          \/ server[Len(requests)].body.kind = "text"

\* a first page with status 500 and a next link, a second page with status
\* 200: the items of both are returned
C30_Witness ==
    /\ listPc = "returned"
    /\ Len(requests) = 2
    /\ server[1].status_code = 500
    /\ server[2].status_code = 200
    /\ server[1].body.kind = "list"
    /\ server[2].body.kind = "list"
    /\ result = ListBody(server[1].body.items \o server[2].body.items)
    /\ Len(server[1].body.items) >= 1

====
